---- MODULE Spec2Model ----
(***************************************************************************)
(* Model of the JEND transfer core: the parallel range scheduler and its   *)
(* journal (internal/core/receiver_parallel.go), the sequential receiver   *)
(* session (internal/core/receiver.go), the per-stream sender handler and  *)
(* the PAKE gate.                                                          *)
(*                                                                         *)
(* Files are byte sequences, 0 is the byte of a hole left by Truncate.     *)
(* A digest is an injective fingerprint of a byte sequence (SHA-256 taken  *)
(* as collision free); NoHash is the empty hash string.                    *)
(***************************************************************************)
EXTENDS Integers, Sequences, FiniteSets, TLC

\* ---------------------------------------------------------------- bounds
\* largest payload size, in bytes
MaxSize == 3
\* largest worker count a caller requests
MaxChunks == 2
\* largest Data frame payload the peer sends (ChunkSize, scaled down)
MaxFrame == 2

\* ------------------------------------------------------------ primitives
\* a file of the output directory: absent, or its bytes
NoFile == [exists |-> FALSE, data |-> <<>>]
File(bytes) == [exists |-> TRUE, data |-> bytes]
\* the old name after os.Rename(old, new)
Moved_copy(f) == f
Moved(f) == NoFile
\* the journal file: absent, or the JSON record it holds
NoJournal == [exists |-> FALSE, total_size |-> 0, chunks |-> <<>>]
Journal(totalSize, cs) == [exists |-> TRUE, total_size |-> totalSize, chunks |-> cs]

Min(a, b) == IF a < b THEN a ELSE b

\* the payload of size s: every byte is non-zero, and no byte occurs in
\* two payloads or at two offsets
Payload(s) == [i \in 1..s |-> (s - 1) * MaxSize + i]
\* what a sender may offer under one name: a payload of each size
Payloads == { Payload(s) : s \in 1..MaxSize }

\* the empty hash string of a Handshake without "hash"
NoHash == <<>>

\* hex SHA-256 of a byte sequence: a string that is never empty and that
\* two different byte sequences never share
Sha256Hex(bytes) == <<Len(bytes)>> \o bytes

Zeros(n) == [i \in 1..n |-> 0]

\* f.Truncate(size): cut, or extend with a hole of zero bytes
Truncate(content, size) ==
    IF Len(content) >= size THEN SubSeq(content, 1, size)
    ELSE content \o Zeros(size - Len(content))

\* f.WriteAt(data, off): positioned write, off counted from 0
WriteAt(content, data, off) ==
    LET end  == off + Len(data)
        base == IF Len(content) >= end THEN content
                ELSE content \o Zeros(end - Len(content))
    IN [i \in 1..Len(base) |->
          IF i > off /\ i <= end THEN data[i - off] ELSE base[i]]

\* bytes [start, start+length) of a file
RangeBytes(content, start, length) ==
    SubSeq(content, start + 1, Min(start + length, Len(content)))

\* ------------------------------------------------------------- journal
\* loadOrInitState, the Init branch: chunks near-equal ranges, the last
\* one absorbs the remainder
ChunkLength_gap(totalSize, chunks, i) == totalSize \div chunks
ChunkLength(totalSize, chunks, i) ==
    IF i = chunks - 1 THEN totalSize - i * (totalSize \div chunks)
    ELSE totalSize \div chunks

InitChunks(totalSize, chunks) ==
    [k \in 1..chunks |->
        [id     |-> k - 1,
         start  |-> (k - 1) * (totalSize \div chunks),
         length |-> ChunkLength(totalSize, chunks, k - 1),
         done   |-> FALSE]]

\* loadOrInitState, the load branch: a readable journal is used when its
\* total_size is the requested one
JournalUsable_count(jf, totalSize, chunks) ==
    jf.exists /\ jf.total_size = totalSize /\ Len(jf.chunks) = chunks
JournalUsable(jf, totalSize, chunks) ==
    jf.exists /\ jf.total_size = totalSize

\* loadOrInitState: the state it returns; the journal file afterwards is
\* the same record (saveState on init, untouched on load)
LoadOrInitState(jf, totalSize, chunks) ==
    IF JournalUsable(jf, totalSize, chunks) THEN jf
    ELSE Journal(totalSize, InitChunks(totalSize, chunks))

\* markChunkDone after its ReadFile: the record saveState writes, or the
\* file as it is when id is out of range
MarkDone(state, id) ==
    IF id < Len(state.chunks)
    THEN [state EXCEPT !.chunks[id + 1].done = TRUE]
    ELSE state

AllDone(jf) == \A k \in 1..Len(jf.chunks) : jf.chunks[k].done


\* -------------------------------------------------------------- state
VARIABLES
    \* receiver's disk: the journal <safe_name>.parallel.meta, the partial
    \* file <safe_name>.parallel.part and the final file <safe_name>
    journal, part, final,
    \* the sender's payload and the Handshake metadata of the current run
    src, meta,
    \* arguments of the last loadOrInitState call (fresh: it took the Init
    \* branch), and the Chunks of the state it returned
    call, chunks,
    \* downloadParallel: "idle" | "wait" (workers launched, at wg.Wait),
    \* its concurrency after adopting the journal's, its return value
    sched, conc, result,
    \* per range: the worker goroutine (pc, receivedLocal, the state its
    \* markChunkDone read, whether its markChunkDone returned after
    \* saveState), and the RangeReqs sent for the range
    wk, reqs,
    \* number of errors queued on errChan
    errs,
    \* a worker of this download has read a Cancel frame
    cancelSeen,
    \* the files <name> (1).<ext>, <name> (2).<ext>, ... of the directory
    alts,
    \* sequential session: the file <safe_name>.partial, the session
    \* ("idle" | "recv"), the bytes written to the rolling hasher,
    \* totalRecv, the offset of the Ack, and the read position of the
    \* sender's file after Seek(offset)
    partial, rpc, hasher, totalRecv, ack, spos,
    \* handleReceiveSession calls RunReceiver has made on this directory
    dials,
    \* parallel-capable sender: the connection ("none" | "open"), the code
    \* the peer holds, ctx cancelled, the read position of the one file
    \* handle all stream handlers share, and per accepted stream its
    \* handleConnection goroutine
    conn, peerCode, ctxDone, fpos, sh,
    \* one PerformPAKE exchange: its setting (started, the stream is an
    \* unbuffered pipe, the sender's driver closes the connection when the
    \* handler fails, the receiver's code), the two PerformPAKE calls by
    \* role (0 sender, 1 receiver), the frame parts in flight to each
    \* role, and whether the stream is still open
    pk, pkP, pkWire, pkOpen,
    \* frame codec: the last header given to EncodeHeader, the bytes it
    \* wrote and what DecodeHeader returned for them; one stream with the
    \* bytes in flight, the frames written to it and the frames read from it
    hin, hbytes, hout, wire, sent, got,
    \* one reader of frames: the place in the code that reads ("none"
    \* before it starts), where it stands, the last header DecodeHeader
    \* gave it, and the length of the buffer it holds for payloads
    rd,
    \* one PerformPAKE call whose peer writes what it likes: the role, the
    \* sub-frame the call is at, its return value, the lengths of the salt
    \* and the nonce it holds, and the last sub-frame it read
    pl,
    \* the paths of one receiver session: how far it is, the "name" of the
    \* Handshake, safeName, the mode, the paths of the files it has
    \* created, and the path it has renamed its download to
    nm,
    \* one handleReceiveSession from its Handshake on, for either kind of
    \* payload: where it stands, the Handshake (kind, size, hash), the
    \* mode it chose, the file <safe_name>.partial, the other files it
    \* has put into the output directory, the Ack frames it wrote, the
    \* bytes received, the text handed to the caller, its return value
    hs,
    \* RunReceiver's loop: where it stands ("loop" | "returned" | "fatal"),
    \* retryCount, the seconds of its last sleep, the dials it has made,
    \* and how many of the latest dials failed in a row
    drv,
    \* the audit log: the history file; the WriteEntry calls made one
    \* after the other (their number, the newest timestamp since the file
    \* was last cleared, the last call and what LoadHistory returned);
    \* and the goroutines that call WriteEntry at the same time
    hist, au, cw,
    \* a SecureStream pair over one wire: the frames in flight, the bytes
    \* written, the reader's readBuf and readOffset, the bytes its Reads
    \* returned, the error of its last Read
    ss,
    \* RunSender's payload: how it was prepared, the size it put in the
    \* Handshake, the bytes it hashed and the bytes it has streamed
    pz,
    \* the goroutines and channels of one downloadParallel: where the
    \* function, the progress monitor and each worker stand, what errChan
    \* and progressChan hold and whether they are closed
    ch,
    \* a MultiListener: whether done is closed and how often it was, the
    \* holder of mu, the accept loops, the Accept calls and the Close calls
    ml

parVars == <<journal, part, final, src, meta, call, chunks, sched, conc,
             result, wk, reqs, errs, cancelSeen>>

seqVars == <<partial, rpc, hasher, totalRecv, ack, spos, dials>>

sendVars == <<conn, peerCode, ctxDone, fpos, sh>>

pakeVars == <<pk, pkP, pkWire, pkOpen>>

codecVars == <<hin, hbytes, hout, wire, sent, got>>

\* the state of the parts of the program modelled further down
auditVars == <<hist, au, cw>>

lateVars == <<ss, pz, ch, ml>>

extVars == <<codecVars, rd, pl, nm, hs, drv, auditVars, lateVars>>

\* the state of the two receivers, the sender and the PAKE exchange
coreVars == <<parVars, seqVars, sendVars, pakeVars, alts>>

\* all but the variables added last
earlyVars == <<coreVars, codecVars, rd, pl, nm, hs, drv, auditVars>>

vars == <<coreVars, extVars>>

\* what the parallel download and the journal functions leave alone
notPar == <<seqVars, sendVars, pakeVars, alts, extVars>>

NoWorker == [pc |-> "idle", recvd |-> 0, rd |-> NoJournal, marked |-> FALSE]

\* ---------------------------------------------- downloadParallel: start
\* the launch loop starts a worker for a chunk that is not done
Launches_all(chunk) == TRUE
Launches(chunk) == ~chunk.done

\* concurrency after "Resuming with saved concurrency"
AdoptConcurrency_requested(state, concurrency) == concurrency
AdoptConcurrency(state, concurrency) ==
    IF Len(state.chunks) # concurrency /\ Len(state.chunks) > 0
    THEN Len(state.chunks) ELSE concurrency

\* downloadParallel up to wg.Wait: loadOrInitState, OpenFile(O_CREATE),
\* Truncate(meta.Size), one goroutine per chunk that is not done.
\* ioOk = FALSE: OpenFile or Truncate fails and downloadParallel returns.
StartParallel(p, c, ioOk) ==
    /\ sched = "idle" /\ result # "ok"
    /\ LET size == Len(p)
           st   == LoadOrInitState(journal, size, c)
       IN /\ src' = p
          /\ meta' = [size |-> size, hash |-> Sha256Hex(p)]
          /\ call' = [size |-> size, chunks |-> c,
                       fresh |-> ~JournalUsable(journal, size, c)]
          /\ journal' = st
          /\ chunks' = st.chunks
          /\ conc' = AdoptConcurrency(st, c)
          /\ reqs' = [k \in 1..Len(st.chunks) |-> 0]
          /\ errs' = 0
          /\ cancelSeen' = FALSE
          /\ IF ioOk
             THEN /\ part' = File(Truncate(part.data, size))
                  /\ wk' = [k \in 1..Len(st.chunks) |->
                              IF Launches(st.chunks[k])
                              THEN [NoWorker EXCEPT !.pc = "boot"]
                              ELSE NoWorker]
                  /\ sched' = "wait"
                  /\ result' = "none"
             ELSE /\ part' = part
                  /\ wk' = [k \in 1..Len(st.chunks) |-> NoWorker]
                  /\ sched' = "idle"
                  /\ result' = "err"
    /\ UNCHANGED final
    /\ UNCHANGED notPar

\* ------------------------------------------------------- worker goroutine
Launched(k) == wk[k].pc # "idle"
Exited(k) == wk[k].pc \in {"idle", "exit"}

Fail(k) ==
    /\ wk' = [wk EXCEPT ![k].pc = "exit"]
    /\ errs' = errs + 1

\* OpenStreamSync, PerformPAKE, the discarded Handshake, then the RangeReq
\* frame {start, length}; ok = FALSE: one of them fails
WorkerBoot(k, ok) ==
    /\ sched = "wait" /\ wk[k].pc = "boot"
    /\ IF ok
       THEN /\ reqs' = [reqs EXCEPT ![k] = @ + 1]
            /\ wk' = [wk EXCEPT ![k].pc = "recv"]
            /\ errs' = errs
       ELSE Fail(k) /\ reqs' = reqs
    /\ UNCHANGED <<journal, part, final, src, meta, call, chunks, sched,
                   conc, result>>
    /\ UNCHANGED <<cancelSeen, notPar>>

\* where a Data payload is written
WriteOffset_local(start, receivedLocal) == receivedLocal
WriteOffset(start, receivedLocal) == start + receivedLocal

\* a Data frame of n bytes, the next bytes of the requested range:
\* ReadFull, WriteAt(start+receivedLocal); wok = FALSE: WriteAt fails
WorkerData(k, n, wok) ==
    /\ sched = "wait" /\ wk[k].pc = "recv"
    /\ n \in 1..Min(MaxFrame, chunks[k].length - wk[k].recvd)
    /\ LET from == chunks[k].start + wk[k].recvd
           data == SubSeq(src, from + 1, from + n)
       IN IF wok
          THEN /\ part' = File(WriteAt(part.data, data,
                                  WriteOffset(chunks[k].start, wk[k].recvd)))
               /\ wk' = [wk EXCEPT ![k].recvd = @ + n]
               /\ errs' = errs
          ELSE Fail(k) /\ part' = part
    /\ UNCHANGED <<journal, final, src, meta, call, chunks, sched, conc,
                   result, reqs>>
    /\ UNCHANGED <<cancelSeen, notPar>>

\* DecodeHeader or ReadFull returns an error other than io.EOF
WorkerReadErr(k) ==
    /\ sched = "wait" /\ wk[k].pc = "recv"
    /\ Fail(k)
    /\ UNCHANGED <<journal, part, final, src, meta, call, chunks, sched,
                   conc, result, reqs>>
    /\ UNCHANGED <<cancelSeen, notPar>>

\* after the loop: the range is marked when all of it arrived
Complete_always(receivedLocal, length) == TRUE
Complete(receivedLocal, length) == receivedLocal = length

\* what ends a worker's loop without an error
Breaks == {"eof", "cancel"}

\* io.EOF from DecodeHeader, or a frame that is not Data (a Cancel frame):
\* break; a worker that has its whole range calls markChunkDone, whose
\* os.ReadFile reads the journal (a missing file ends the call)
WorkerBreak(k, frame) ==
    /\ sched = "wait" /\ wk[k].pc = "recv"
    /\ cancelSeen' = (cancelSeen \/ frame = "cancel")
    /\ wk' = [wk EXCEPT ![k] =
                IF Complete(wk[k].recvd, chunks[k].length) /\ journal.exists
                THEN [@ EXCEPT !.pc = "save", !.rd = journal]
                ELSE [@ EXCEPT !.pc = "exit"]]
    /\ UNCHANGED <<journal, part, final, src, meta, call, chunks, sched,
                   conc, result, reqs, errs>>
    /\ UNCHANGED notPar

\* markChunkDone, Chunks[id].Done = true and saveState
MarkSave(k) ==
    /\ sched = "wait" /\ wk[k].pc = "save"
    /\ journal' = MarkDone(wk[k].rd, chunks[k].id)
    /\ wk' = [wk EXCEPT ![k] =
                [@ EXCEPT !.pc = "exit", !.rd = NoJournal, !.marked = TRUE]]
    /\ UNCHANGED <<part, final, src, meta, call, chunks, sched, conc,
                   result, reqs, errs>>
    /\ UNCHANGED <<cancelSeen, notPar>>

\* ------------------------------------------- downloadParallel: the end
\* what decides between the error return and the rename
Succeeds_alldone(nerr, jf) == nerr = 0 /\ jf.exists /\ AllDone(jf)
Succeeds(nerr, jf) == nerr = 0

\* wg.Wait returned: an error of errChan is returned, else
\* os.Rename(parallelPath, finalPath), os.Remove(metaPath), success
Finish ==
    /\ sched = "wait"
    /\ \A k \in 1..Len(chunks) : Exited(k)
    /\ sched' = "idle"
    /\ IF Succeeds(errs, journal)
       THEN /\ final' = part
            /\ part' = Moved(part)
            /\ journal' = NoJournal
            /\ result' = "ok"
       ELSE /\ result' = "err"
            /\ UNCHANGED <<journal, part, final>>
    /\ UNCHANGED <<src, meta, call, chunks, conc, wk, reqs, errs>>
    /\ UNCHANGED <<cancelSeen, notPar>>

InitPar ==
    /\ journal = NoJournal /\ part = NoFile /\ final = NoFile
    /\ src = <<>> /\ meta = [size |-> 0, hash |-> NoHash]
    /\ call = [size |-> 0, chunks |-> 0, fresh |-> FALSE]
    /\ chunks = <<>>
    /\ sched = "idle" /\ conc = 0 /\ result = "none"
    /\ wk = <<>> /\ reqs = <<>> /\ errs = 0
    /\ cancelSeen = FALSE

\* no receiver session yet and no .partial file
InitSeq ==
    /\ partial = NoFile /\ rpc = "idle" /\ hasher = <<>>
    /\ totalRecv = 0 /\ ack = 0 /\ spos = 0
    /\ dials = 0

\* RunSender has not opened its file
InitSend ==
    /\ conn = "none" /\ peerCode = "" /\ ctxDone = FALSE
    /\ fpos = 0 /\ sh = <<>>

\* no PerformPAKE call yet
NoPake == [ret |-> "idle", pc |-> 1, salt |-> 0, nonce |-> 0]
InitPake ==
    /\ pk = [on |-> FALSE, sync |-> FALSE, closes |-> FALSE, rcode |-> ""]
    /\ pkP = [role \in 0..1 |-> NoPake]
    /\ pkWire = [role \in 0..1 |-> <<>>]
    /\ pkOpen = FALSE

\* most names of the form "name (k).ext" in the directory
MaxAlt == 2

\* an output directory without files of the payload's name
InitDir == alts = [k \in 1..MaxAlt |-> NoFile]

\* nothing encoded yet and an empty stream
NoHeader == [type |-> 0, length |-> [hi |-> 0, lo |-> 0], set |-> FALSE]
InitCodec ==
    /\ hin = NoHeader /\ hbytes = <<>> /\ hout = NoHeader
    /\ wire = <<>> /\ sent = <<>> /\ got = <<>>

\* no reader yet
InitReader ==
    rd = [site |-> "none", pc |-> "idle", hdr |-> NoHeader,
          buf |-> [hi |-> 0, lo |-> 0], cut |-> ""]

\* no sub-frame read
NoSub == [msg |-> "", length |-> 0]
\* PerformPAKE not called
InitPakeLen ==
    pl = [role |-> 0, pc |-> 0, ret |-> "idle", salt |-> 0, nonce |-> 0,
          last |-> NoSub]

\* no Handshake read
InitName ==
    nm = [pc |-> "idle", name |-> <<>>, safe |-> <<>>, mode |-> "",
          made |-> {}, dest |-> {}]

\* no text handed to the caller
NoText == [given |-> FALSE, text |-> <<>>]
\* no Handshake read, an output directory without files of the name
InitHs ==
    hs = [pc |-> "idle", kind |-> "", size |-> 0, hk |-> "", mode |-> "",
          pfile |-> NoFile, pre |-> NoFile, others |-> {}, acks |-> <<>>,
          recv |-> <<>>, out |-> NoText, ret |-> "none"]

\* retryCount := 0, before the first dial
InitDriver ==
    drv = [pc |-> "loop", retryCount |-> 0, sleep |-> 0, dialed |-> 0,
           failed |-> 0]

\* no history file, no call made
NoHistory == [exists |-> FALSE, lines |-> <<>>]
InitAudit ==
    /\ hist = NoHistory
    /\ au = [wrote |-> 0, newest |-> 0, last |-> "", loaded |-> <<>>]
    /\ cw = [n |-> 0, m |-> 0, clock |-> 0, w |-> <<>>]

InitSecure ==
    ss = [wire |-> <<>>, written |-> <<>>, readBuf |-> <<>>,
          readOffset |-> 0, out |-> <<>>, err |-> ""]

InitPayload ==
    pz = [pc |-> "idle", mode |-> "", payload |-> 0, fileSize |-> 0,
          size |-> 0, hashed |-> 0, sent |-> 0]

InitChannels ==
    ch = [main |-> "idle", mon |-> "off", cap |-> 0, err |-> 0, prog |-> 0,
          errClosed |-> FALSE, progClosed |-> FALSE, panic |-> FALSE,
          w |-> <<>>]

InitListener ==
    ml = [done |-> FALSE, closes |-> 0, mu |-> 0, returned |-> FALSE,
          loops |-> <<>>,
          acc |-> [a \in 1..2 |-> [pc |-> "idle", ret |-> "", ctx |-> FALSE,
                                    after |-> FALSE]],
          cl |-> [c \in 1..2 |-> "idle"]]

InitLate == InitSecure /\ InitPayload /\ InitChannels /\ InitListener

InitExt ==
    InitCodec /\ InitReader /\ InitPakeLen /\ InitName /\ InitHs
    /\ InitDriver /\ InitAudit /\ InitLate

Init == InitPar /\ InitSeq /\ InitSend /\ InitPake /\ InitDir /\ InitExt

NextPar ==
    \* parallel mode is entered for payloads far larger than the worker
    \* count: every worker count up to the payload size
    \/ \E p \in Payloads, c \in 1..MaxChunks, ioOk \in BOOLEAN :
          c <= Len(p) /\ StartParallel(p, c, ioOk)
    \/ \E k \in 1..Len(chunks), ok \in BOOLEAN : WorkerBoot(k, ok)
    \/ \E k \in 1..Len(chunks), n \in 1..MaxFrame, wok \in BOOLEAN :
          WorkerData(k, n, wok)
    \/ \E k \in 1..Len(chunks) : WorkerReadErr(k)
    \/ \E k \in 1..Len(chunks), frame \in Breaks : WorkerBreak(k, frame)
    \/ \E k \in 1..Len(chunks) : MarkSave(k)
    \/ Finish

SpecPar == Init /\ [][NextPar]_vars


\* --------------------------- downloadParallel, streams that deliver any bytes
\* most bytes a stream delivers beyond the requested range
MaxSurplus == 2

\* a byte the sender was not asked for
Unrequested == 0 - 1

\* a Data frame of n bytes that carries more than the rest of the range:
\* the loop has no check of l against length - receivedLocal; ReadFull,
\* then WriteAt(buf[:l], start+receivedLocal), receivedLocal += l
WorkerSurplus(k, n) ==
    /\ sched = "wait" /\ wk[k].pc = "recv"
    /\ n > chunks[k].length - wk[k].recvd
    /\ wk[k].recvd + n <= chunks[k].length + MaxSurplus
    /\ LET from == chunks[k].start + wk[k].recvd
           rest == chunks[k].length - wk[k].recvd
           data == [i \in 1..n |->
                      IF i <= rest THEN src[from + i] ELSE Unrequested]
       IN part' = File(WriteAt(part.data, data,
                               WriteOffset(chunks[k].start, wk[k].recvd)))
    /\ wk' = [wk EXCEPT ![k].recvd = @ + n]
    /\ UNCHANGED <<journal, final, src, meta, call, chunks, sched, conc,
                   result, reqs, errs>>
    /\ UNCHANGED <<cancelSeen, notPar>>

NextParAny ==
    \/ NextPar
    \/ \E k \in 1..Len(chunks), n \in 1..MaxFrame : WorkerSurplus(k, n)

\* downloadParallel with a sender that is free in what it streams
SpecParAny == Init /\ [][NextParAny]_vars


\* ------------------------------------- the journal functions called alone
\* loadOrInitState(metaPath, s, c) outside a download (TestStatePersistence)
CallLoadOrInit(s, c) ==
    /\ LET st == LoadOrInitState(journal, s, c)
       IN /\ journal' = st
          /\ chunks' = st.chunks
          /\ call' = [size |-> s, chunks |-> c,
                      fresh |-> ~JournalUsable(journal, s, c)]
    /\ UNCHANGED <<part, final, src, meta, sched, conc, result, wk, reqs, errs>>
    /\ UNCHANGED <<cancelSeen, notPar>>

\* markChunkDone(metaPath, id) outside a download: ReadFile, then saveState
\* unless the file is missing or id is out of range
CallMarkChunkDone(id) ==
    /\ journal.exists
    /\ journal' = MarkDone(journal, id)
    /\ UNCHANGED <<part, final, src, meta, call, chunks, sched, conc, result,
                   wk, reqs, errs>>
    /\ UNCHANGED <<cancelSeen, notPar>>

\* os.Remove(metaPath), as finalization does
CallRemoveJournal ==
    /\ journal.exists
    /\ journal' = NoJournal
    /\ UNCHANGED <<part, final, src, meta, call, chunks, sched, conc, result,
                   wk, reqs, errs>>
    /\ UNCHANGED <<cancelSeen, notPar>>

NextJournal ==
    \/ \E s \in 0..MaxSize, c \in 1..MaxChunks : CallLoadOrInit(s, c)
    \/ \E id \in 0..MaxChunks : CallMarkChunkDone(id)
    \/ CallRemoveJournal

SpecJournal == Init /\ [][NextJournal]_vars


\* ------------------------------------------ sequential receiver session
\* what the parallel scheduler's variables are to a sequential session
notSeq == <<journal, part, call, chunks, sched, conc, wk, reqs, errs,
           cancelSeen, sendVars, pakeVars, extVars>>

\* the "hash" of the Handshake JSON as the receiver decodes it: the digest
\* the sender computed over its file, the digest of other bytes, or no
\* hash field at all
HashKinds == {"sent", "other", "none"}
HandshakeHash(p, hk) ==
    CASE hk = "sent"  -> Sha256Hex(p)
      [] hk = "other" -> Sha256Hex(Zeros(Len(p)))
      [] hk = "none"  -> NoHash

\* the offset of the Ack: the size of an existing .partial that is not
\* empty and shorter than meta.Size, else 0
ResumeOffset(pf, size) ==
    IF pf.exists /\ Len(pf.data) < size /\ Len(pf.data) > 0
    THEN Len(pf.data) ELSE 0

\* io.CopyN(hasher, existingFile, offset) when resuming
PrefixHash_none(content, offset) == <<>>
PrefixHash(content, offset) == SubSeq(content, 1, offset)

\* most sessions one receiver starts
MaxDials == 3

\* how the steps before the receive loop go: all succeed, PerformPAKE
\* returns an error, or another step (Handshake read, MkdirAll, the Ack,
\* opening the file) does
Starts == {"ok", "auth", "io"}

\* after which session results RunReceiver's loop dials again: it returns
\* on done and on "transfer cancelled by sender", and continues otherwise
Redials(res) == res \notin {"ok", "cancelled"}

\* RunReceiver's dial and handleReceiveSession up to the receive loop, with
\* the sender's handler up to its send loop: PAKE, Handshake, Ack{offset},
\* the sender's Seek(offset), O_APPEND open when resuming and os.Create
\* otherwise, the prefix fed to the hasher.
SeqStart(p, hk, how) ==
    /\ rpc = "idle" /\ Redials(result)
    /\ dials < MaxDials
    /\ dials' = dials + 1
    /\ src' = p
    /\ meta' = [size |-> Len(p), hash |-> HandshakeHash(p, hk)]
    /\ IF how = "ok"
       THEN LET offset == ResumeOffset(partial, Len(p))
            IN /\ ack' = offset
               /\ spos' = offset
               /\ partial' = IF offset > 0 THEN partial ELSE File(<<>>)
               /\ hasher' = PrefixHash(partial.data, offset)
               /\ totalRecv' = offset
               /\ rpc' = "recv"
               /\ result' = "none"
       ELSE /\ result' = IF how = "auth" THEN "autherr" ELSE "err"
            /\ UNCHANGED <<partial, rpc, hasher, totalRecv, ack, spos>>
    /\ UNCHANGED <<final, alts, notSeq>>

\* a Data frame with the next n bytes of the sender's file: ReadFull,
\* mw.Write to the file and then the hasher (its error is dropped: with
\* wok = FALSE neither is written), totalRecv += length
SeqData(n, wok) ==
    /\ rpc = "recv"
    /\ n \in 1..Min(MaxFrame, Len(src) - spos)
    /\ LET data == SubSeq(src, spos + 1, spos + n)
       IN /\ spos' = spos + n
          /\ totalRecv' = totalRecv + n
          /\ IF wok
             THEN /\ partial' = File(partial.data \o data)
                  /\ hasher' = hasher \o data
             ELSE UNCHANGED <<partial, hasher>>
    /\ UNCHANGED <<rpc, ack, dials, final, alts, src, meta, result, notSeq>>

\* the check before the rename: with a hash in the metadata the hex digest
\* of the hasher must equal it; without one nothing is compared
Accepts(mh, hashed) ==
    IF mh # NoHash THEN Sha256Hex(hashed) = mh ELSE TRUE

\* the "Safe Move" loop: 0 for the final path when nothing is there, else
\* the first counter k >= 1 whose name "name (k).ext" is free
FreeSlot(f, as) ==
    IF ~f.exists THEN 0
    ELSE CHOOSE k \in 1..(Len(as) + 1) :
            /\ k <= Len(as) => ~as[k].exists
            /\ \A j \in 1..(k - 1) : as[j].exists

\* where the verified branch and the branch without a hash rename to
SeqTarget(mh, f, as) == IF mh # NoHash THEN FreeSlot(f, as) ELSE 0

\* os.Rename(partialPath, <the name of slot>)
SeqRename(slot) ==
    /\ slot <= MaxAlt
    /\ final' = IF slot = 0 THEN partial ELSE final
    /\ alts' = [k \in 1..MaxAlt |-> IF k = slot THEN partial ELSE alts[k]]
    /\ partial' = Moved(partial)

\* after the loop: the rename, or "Integrity Check: FAILED"
SeqVerify ==
    IF Accepts(meta.hash, hasher)
    THEN /\ SeqRename(SeqTarget(meta.hash, final, alts))
         /\ result' = "ok"
    ELSE /\ result' = "integrity"
         /\ UNCHANGED <<final, alts, partial>>

\* how a session ends: "eof" DecodeHeader returns io.EOF; "drop" it returns
\* another error; "torn" ReadFull fails inside a Data payload; "cancel" a
\* Cancel frame; "kill" the receiver process is killed
Ends == {"eof", "drop", "torn", "cancel", "kill"}
SeqEnd(how) ==
    /\ rpc = "recv"
    /\ rpc' = "idle"
    /\ CASE how = "eof" -> SeqVerify
         [] how = "drop" ->
               IF totalRecv = meta.size THEN SeqVerify
               ELSE result' = "err" /\ UNCHANGED <<final, alts, partial>>
         [] how = "torn" ->
               /\ spos < Len(src)
               /\ result' = "err" /\ UNCHANGED <<final, alts, partial>>
         [] how = "cancel" ->
               result' = "cancelled" /\ UNCHANGED <<final, alts, partial>>
         [] how = "kill" ->
               result' = "killed" /\ UNCHANGED <<final, alts, partial>>
    /\ UNCHANGED <<hasher, totalRecv, ack, spos, dials, src, meta, notSeq>>

NextSeq ==
    \/ \E p \in Payloads, hk \in HashKinds, how \in Starts :
          SeqStart(p, hk, how)
    \/ \E n \in 1..MaxFrame, wok \in BOOLEAN : SeqData(n, wok)
    \/ \E how \in Ends : SeqEnd(how)

SpecSeq == Init /\ [][NextSeq]_vars


\* --------------------------------------- sender: one handler per stream
\* most streams the peer opens on the connection
MaxStreams == 2

\* what the receiver's variables are to the sender
notSend == <<journal, part, final, meta, call, chunks, sched, conc, result,
             wk, reqs, errs, cancelSeen, seqVars, pakeVars, alts, extVars>>

\* the code RunSender generated, and the codes a peer may hold
SenderCode == "amber"
Codes == {"amber", "birch"}

\* argon2.IDKey and computeHMAC, taken as injective
ArgonKey(password, salt) == <<password, salt>>
ComputeHMAC(K, data) == <<K, data>>
ClientTag(password, salt, nonce) ==
    ComputeHMAC(ArgonKey(password, salt), <<"client", nonce>>)

\* a handler: where it is, whether PerformPAKE succeeded on its stream,
\* the Handshake it wrote (hs, with the "hash" and "code" members of the
\* metadata), the request it read, the Data payloads and the Cancel frame
\* it wrote, and what it returned
NoHandler ==
    [pc |-> "auth", verified |-> FALSE, hs |-> FALSE, hash |-> NoHash,
     code |-> "", kind |-> "none", start |-> 0, limit |-> -1, rem |-> -1,
     sent |-> <<>>, cancel |-> FALSE, ret |-> "none"]

Return(h, r) == [h EXCEPT !.pc = "done", !.ret = r]

\* RunSender: os.Open of the payload, listener.Accept of a connection from
\* a peer holding pcode
SendOpen(p, pcode) ==
    /\ conn = "none"
    /\ conn' = "open" /\ src' = p /\ peerCode' = pcode
    /\ fpos' = 0 /\ sh' = <<>>
    /\ UNCHANGED <<ctxDone, notSend>>

\* handleConnection's last argument for the stream with this streamID
SkipAuth_never(streamID) == FALSE
SkipAuth(streamID) == ~(streamID = 0)

\* conn.AcceptStream and the goroutine running handleConnection
AcceptStream ==
    /\ conn = "open" /\ Len(sh) < MaxStreams
    /\ sh' = Append(sh, [NoHandler EXCEPT
                           !.pc = IF SkipAuth(Len(sh)) THEN "seek" ELSE "auth"])
    /\ UNCHANGED <<conn, peerCode, ctxDone, fpos, src, notSend>>

\* PerformPAKE(stream, code, 0): Hello, salt, nonce, then the peer's tag
\* is compared with the tag of the sender's code; the server tag follows
\* a match
Pake(k) ==
    /\ conn = "open" /\ sh[k].pc = "auth"
    /\ LET gotTag == ClientTag(peerCode, k, k)
       IN sh' = [sh EXCEPT ![k] =
                   IF gotTag = ClientTag(SenderCode, k, k)
                   THEN [@ EXCEPT !.verified = TRUE, !.pc = "seek"]
                   ELSE Return(@, "autherr")]
    /\ UNCHANGED <<conn, peerCode, ctxDone, fpos, src, notSend>>

\* seeker.Seek(0, 0) before the checksum
HashSeek(k) ==
    /\ conn = "open" /\ sh[k].pc = "seek"
    /\ fpos' = 0
    /\ sh' = [sh EXCEPT ![k].pc = "copy"]
    /\ UNCHANGED <<conn, peerCode, ctxDone, src, notSend>>

\* io.Copy(hasher, file) reads the shared handle from its position to the
\* end; then the Handshake with the hex digest is written
HashCopy(k) ==
    /\ conn = "open" /\ sh[k].pc = "copy"
    /\ fpos' = Len(src)
    /\ sh' = [sh EXCEPT ![k] =
                [@ EXCEPT !.pc = "wait", !.hs = TRUE, !.code = SenderCode,
                          !.hash = Sha256Hex(SubSeq(src, fpos + 1, Len(src)))]]
    /\ UNCHANGED <<conn, peerCode, ctxDone, src, notSend>>

\* bytesRemaining of the send loop
BytesRemaining(byteLimit) == IF byteLimit > 0 THEN byteLimit ELSE -1

\* the frame after the Handshake: Ack{offset} (byteLimit stays -1),
\* RangeReq{start, length}, or another type (error); then Seek(offset)
Request(k, kind, start, length) ==
    /\ conn = "open" /\ sh[k].pc = "wait"
    /\ kind \in {"ack", "range", "other"}
    /\ IF kind = "other"
       THEN /\ start = 0 /\ length = 0
            /\ sh' = [sh EXCEPT ![k] = Return(@, "err")]
            /\ fpos' = fpos
       ELSE /\ kind = "ack" => length = 0
            /\ LET byteLimit == IF kind = "range" THEN length ELSE -1
               IN sh' = [sh EXCEPT ![k] =
                           [@ EXCEPT !.pc = "send", !.kind = kind,
                                     !.start = start, !.limit = byteLimit,
                                     !.rem = BytesRemaining(byteLimit)]]
            /\ fpos' = start
    /\ UNCHANGED <<conn, peerCode, ctxDone, src, notSend>>

\* the select on ctx.Done() at the top of the send loop
SeesCancel_never(done) == FALSE
SeesCancel(done) == done

\* one turn of the send loop: a Cancel frame when ctx is done; else
\* file.Read of readSize bytes at the shared position and a Data frame,
\* and the loop ends on bytesRemaining = 0 or io.EOF
SendStep(k) ==
    /\ conn = "open" /\ sh[k].pc = "send"
    /\ IF SeesCancel(ctxDone)
       THEN /\ sh' = [sh EXCEPT ![k] =
                        Return([@ EXCEPT !.cancel = TRUE], "cancelled")]
            /\ fpos' = fpos
       ELSE LET rem      == sh[k].rem
                readSize == IF rem > 0 /\ MaxFrame > rem THEN rem ELSE MaxFrame
                n        == Min(readSize, Len(src) - fpos)
                data     == SubSeq(src, fpos + 1, fpos + n)
                rem2     == IF rem > 0 THEN rem - n ELSE rem
                h2       == [sh[k] EXCEPT !.sent = @ \o data, !.rem = rem2]
            IN /\ fpos' = fpos + n
               /\ sh' = [sh EXCEPT ![k] =
                           IF rem2 = 0 \/ n = 0 THEN Return(h2, "true")
                           ELSE h2]
    /\ UNCHANGED <<conn, peerCode, ctxDone, src, notSend>>

\* a read or write on the stream fails and handleConnection returns it
StreamFail(k) ==
    /\ conn = "open" /\ sh[k].pc \in {"auth", "wait", "send"}
    /\ sh' = [sh EXCEPT ![k] = Return(@, "err")]
    /\ UNCHANGED <<conn, peerCode, ctxDone, fpos, src, notSend>>

\* the user cancels: ctx.Done() is closed
Cancel ==
    /\ conn = "open" /\ ~ctxDone
    /\ ctxDone' = TRUE
    /\ UNCHANGED <<conn, peerCode, fpos, sh, src, notSend>>

NextSend ==
    \/ \E p \in Payloads, pcode \in Codes : SendOpen(p, pcode)
    \/ AcceptStream
    \/ \E k \in 1..Len(sh) : Pake(k)
    \/ \E k \in 1..Len(sh) : HashSeek(k)
    \/ \E k \in 1..Len(sh) : HashCopy(k)
    \/ \E k \in 1..Len(sh), kind \in {"ack", "range", "other"},
          start \in 0..Len(src), length \in 0..Len(src) :
          start + length <= Len(src) /\ Request(k, kind, start, length)
    \/ \E k \in 1..Len(sh) : SendStep(k)
    \/ \E k \in 1..Len(sh) : StreamFail(k)
    \/ Cancel

SpecSend == Init /\ [][NextSend]_vars


\* ------------------------------------------------ PerformPAKE, both roles
\* values rand.Reader may return for the salt and the nonce
MaxRand == 2

notPake == <<parVars, seqVars, sendVars, alts, extVars>>

ServerTag(password, salt, nonce) ==
    ComputeHMAC(ArgonKey(password, salt), <<"server", nonce>>)

\* the messages in the order PerformPAKE handles them, for either role
Script_serverFirst(role) ==
    IF role = 0 THEN <<"hello", "salt", "nonce", "stag", "ctag">>
    ELSE <<"hello", "salt", "nonce", "ctag", "stag">>
Script(role) == <<"hello", "salt", "nonce", "ctag", "stag">>

\* role 1 writes the Hello and the client tag, role 0 the salt, the nonce
\* and the server tag; the other role reads
Writes(role, msg) ==
    IF role = 1 THEN msg \in {"hello", "ctag"}
    ELSE msg \in {"salt", "nonce", "stag"}

\* EncodeHeader / DecodeHeader, then the payload (the Hello has none)
Parts(msg) == IF msg = "hello" THEN <<"hdr">> ELSE <<"hdr", "body">>

RECURSIVE OpsOf(_, _)
OpsOf(role, msgs) ==
    IF msgs = <<>> THEN <<>>
    ELSE LET m == Head(msgs)
         IN [i \in 1..Len(Parts(m)) |->
                [msg |-> m, part |-> Parts(m)[i],
                 kind |-> IF Writes(role, m) THEN "w" ELSE "r"]]
            \o OpsOf(role, Tail(msgs))

\* the stream operations of PerformPAKE(stream, password, role), in order
Ops(role) == OpsOf(role, Script(role))

PakeCode(role) == IF role = 0 THEN SenderCode ELSE pk.rcode

Running(role) == pk.on /\ pkP[role].ret = "none"
CurOp(role) == Ops(role)[pkP[role].pc]

\* what a write puts on the stream
WVal(role, op) ==
    LET p == pkP[role]
    IN CASE op.part = "hdr" -> <<>>
         [] op.msg = "salt"  -> <<p.salt>>
         [] op.msg = "nonce" -> <<p.nonce>>
         [] op.msg = "ctag"  -> ClientTag(PakeCode(role), p.salt, p.nonce)
         [] op.msg = "stag"  -> ServerTag(PakeCode(role), p.salt, p.nonce)

\* the call after an operation: the next one, or return nil after the last
Advance(role, p) ==
    IF p.pc = Len(Ops(role)) THEN [p EXCEPT !.ret = "ok"]
    ELSE [p EXCEPT !.pc = @ + 1]

\* the call after reading val: the salt and the nonce are kept, a tag is
\* compared with the tag of the own key (subtle.ConstantTimeCompare)
AfterRead(role, op, val) ==
    LET p == pkP[role]
    IN CASE op.part = "hdr" -> Advance(role, p)
         [] op.msg = "salt"  -> Advance(role, [p EXCEPT !.salt = val[1]])
         [] op.msg = "nonce" -> Advance(role, [p EXCEPT !.nonce = val[1]])
         [] op.msg = "ctag"  ->
               IF val = ClientTag(PakeCode(role), p.salt, p.nonce)
               THEN Advance(role, p) ELSE [p EXCEPT !.ret = "autherr"]
         [] op.msg = "stag"  ->
               IF val = ServerTag(PakeCode(role), p.salt, p.nonce)
               THEN Advance(role, p) ELSE [p EXCEPT !.ret = "autherr"]

\* both sides call PerformPAKE on a fresh stream
PakeStart(rcode, sync, closes, salt, nonce) ==
    /\ ~pk.on
    /\ pk' = [on |-> TRUE, sync |-> sync, closes |-> closes, rcode |-> rcode]
    /\ pkP' = [role \in 0..1 |->
                 IF role = 0
                 THEN [ret |-> "none", pc |-> 1, salt |-> salt, nonce |-> nonce]
                 ELSE [NoPake EXCEPT !.ret = "none"]]
    /\ pkWire' = [role \in 0..1 |-> <<>>]
    /\ pkOpen' = TRUE
    /\ UNCHANGED notPake

\* a Write on a buffered stream returns at once
PkWrite(role) ==
    /\ ~pk.sync /\ pkOpen /\ Running(role) /\ CurOp(role).kind = "w"
    /\ pkWire' = [pkWire EXCEPT ![1 - role] =
                    Append(@, [part |-> CurOp(role).part,
                               val |-> WVal(role, CurOp(role))])]
    /\ pkP' = [pkP EXCEPT ![role] = Advance(role, @)]
    /\ UNCHANGED <<pk, pkOpen, notPake>>

\* a Read on a buffered stream takes what has arrived
PkRead(role) ==
    /\ ~pk.sync /\ Running(role) /\ CurOp(role).kind = "r"
    /\ pkWire[role] # <<>>
    /\ pkWire' = [pkWire EXCEPT ![role] = Tail(@)]
    /\ pkP' = [pkP EXCEPT ![role] = AfterRead(role, CurOp(role),
                                               Head(pkWire[role]).val)]
    /\ UNCHANGED <<pk, pkOpen, notPake>>

\* io.Pipe: a Write returns when the other side's Read has taken it
PkRendezvous(w) ==
    /\ pk.sync /\ pkOpen /\ Running(w) /\ Running(1 - w)
    /\ CurOp(w).kind = "w" /\ CurOp(1 - w).kind = "r"
    /\ pkP' = [role \in 0..1 |->
                 IF role = w THEN Advance(w, pkP[w])
                 ELSE AfterRead(role, CurOp(role), WVal(w, CurOp(w)))]
    /\ UNCHANGED <<pk, pkWire, pkOpen, notPake>>

\* the sender's driver after handleConnection returned an error:
\* conn.CloseWithError and stream.Close in the sequential RunSender,
\* nothing in the RunSender that serves several streams
PkClose ==
    /\ pk.on /\ pk.closes /\ pkOpen
    /\ pkP[0].ret \in {"autherr", "err"}
    /\ pkOpen' = FALSE
    /\ UNCHANGED <<pk, pkP, pkWire, notPake>>

\* the receiver's operation on a closed stream returns an error
PkReceiverFails ==
    /\ ~pkOpen /\ Running(1)
    /\ CurOp(1).kind = "r" => pkWire[1] = <<>>
    /\ pkP' = [pkP EXCEPT ![1].ret = "err"]
    /\ UNCHANGED <<pk, pkWire, pkOpen, notPake>>

NextPake ==
    \/ \E rcode \in Codes, sync \in BOOLEAN, closes \in BOOLEAN,
          salt \in 1..MaxRand, nonce \in 1..MaxRand :
          PakeStart(rcode, sync, closes, salt, nonce)
    \/ \E role \in 0..1 : PkWrite(role)
    \/ \E role \in 0..1 : PkRead(role)
    \/ \E w \in 0..1 : PkRendezvous(w)
    \/ PkClose
    \/ PkReceiverFails

\* the Go scheduler runs every goroutine that can take a step
SpecPake == Init /\ [][NextPake]_vars /\ WF_vars(NextPake)


\* ----------------------------------------------- one receiver, either mode
\* handleReceiveSession takes the parallel path for payloads above this
\* size (100 MiB, scaled down)
ParallelThreshold == 2
UseParallel(size) == size > ParallelThreshold

\* the sessions of one receiver meet the same sender and payload
SamePayload(p) == src = <<>> \/ src = p

\* one RunReceiver: sessions in the mode the payload size selects
NextRecv ==
    \/ \E p \in Payloads, hk \in HashKinds, how \in Starts :
          SamePayload(p) /\ ~UseParallel(Len(p)) /\ SeqStart(p, hk, how)
    \/ \E n \in 1..MaxFrame, wok \in BOOLEAN : SeqData(n, wok)
    \/ \E how \in Ends : SeqEnd(how)
    \/ \E p \in Payloads, c \in 1..MaxChunks, ioOk \in BOOLEAN :
          SamePayload(p) /\ UseParallel(Len(p)) /\ StartParallel(p, c, ioOk)
    \/ \E k \in 1..Len(chunks), ok \in BOOLEAN : WorkerBoot(k, ok)
    \/ \E k \in 1..Len(chunks), n \in 1..MaxFrame, wok \in BOOLEAN :
          WorkerData(k, n, wok)
    \/ \E k \in 1..Len(chunks) : WorkerReadErr(k)
    \/ \E k \in 1..Len(chunks), frame \in Breaks : WorkerBreak(k, frame)
    \/ \E k \in 1..Len(chunks) : MarkSave(k)
    \/ Finish

SpecRecv == Init /\ [][NextRecv]_vars

\* a file some other transfer stored in the directory
OtherFile == File(<<0>>)

\* before the receiver runs, earlier transfers of the same name have
\* taken the final path (slot 0) and then "name (1)", "name (2)", ...
Occupy(slot) ==
    /\ src = <<>> /\ rpc = "idle" /\ sched = "idle"
    /\ slot < MaxAlt
    /\ IF slot = 0 THEN ~final.exists
       ELSE /\ ~alts[slot].exists
            /\ final.exists /\ \A j \in 1..(slot - 1) : alts[j].exists
    /\ final' = IF slot = 0 THEN OtherFile ELSE final
    /\ alts' = [k \in 1..MaxAlt |-> IF k = slot THEN OtherFile ELSE alts[k]]
    /\ UNCHANGED <<journal, part, src, meta, call, chunks, sched, conc,
                   result, wk, reqs, errs, cancelSeen, seqVars, sendVars,
                   pakeVars, extVars>>

NextDir ==
    \/ \E slot \in 0..MaxAlt : Occupy(slot)
    \/ NextRecv

\* one RunReceiver on a directory that may hold files of the same name
SpecDir == Init /\ [][NextDir]_vars


\* ------------------------------------------------------------ frame codec
\* most frames written to the stream of the codec
MaxWrites == 2

notCodec == <<coreVars, rd, pl, nm, hs, drv, auditVars, lateVars>>

\* a uint32 as its two 16-bit halves, value hi * 65536 + lo
U32(hi, lo) == [hi |-> hi, lo |-> lo]

\* the header values encoded: every uint8; for the length the ends of
\* each byte of a uint32 and 10 MiB; the kinds of the frames of the stream
Kinds == 0..255
KindSamples == {0, 2, 5, 255}
HalfSamples == {0, 1, 160, 255, 256, 65535}
PayloadBytes == {0, 255}

\* binary.Write(w, binary.LittleEndian, uint32): four bytes, lowest first
LittleEndian_big(v) ==
    <<v.hi \div 256, v.hi % 256, v.lo \div 256, v.lo % 256>>
LittleEndian(v) ==
    <<v.lo % 256, v.lo \div 256, v.hi % 256, v.hi \div 256>>

\* binary.Read(r, binary.LittleEndian, &uint32) of four bytes
FromLittleEndian(b) ==
    U32(b[3] + 256 * b[4], b[1] + 256 * b[2])

\* EncodeHeader: the type byte, then the length
EncodeHeader(pType, length) == <<pType>> \o LittleEndian(length)

\* DecodeHeader of five bytes
DecodeHeader(b) ==
    [type |-> b[1], length |-> FromLittleEndian(SubSeq(b, 2, 5)),
     set |-> TRUE]

\* EncodeHeader into a buffer, on its own
CodecEncode(pType, length) ==
    /\ ~hin.set /\ sent = <<>>
    /\ hin' = [type |-> pType, length |-> length, set |-> TRUE]
    /\ hbytes' = EncodeHeader(pType, length)
    /\ hout' = NoHeader
    /\ UNCHANGED <<wire, sent, got, notCodec>>

\* DecodeHeader from that buffer
CodecDecode ==
    /\ hin.set /\ ~hout.set
    /\ hout' = DecodeHeader(hbytes)
    /\ UNCHANGED <<hin, hbytes, wire, sent, got, notCodec>>

\* a writer sends one frame: EncodeHeader with the payload's length, then
\* the payload
WriteFrame(pType, payload) ==
    /\ ~hin.set
    /\ Len(sent) < MaxWrites
    /\ wire' = wire \o EncodeHeader(pType, U32(0, Len(payload))) \o payload
    /\ sent' = Append(sent, [type |-> pType, payload |-> payload])
    /\ UNCHANGED <<hin, hbytes, hout, got, notCodec>>

\* a reader takes one frame: DecodeHeader, then io.ReadFull of length
\* bytes; both block until the bytes have arrived
ReadFrame ==
    /\ Len(wire) >= 5
    /\ LET h == DecodeHeader(SubSeq(wire, 1, 5))
           n == h.length.hi * 65536 + h.length.lo
       IN /\ Len(wire) >= 5 + n
          /\ got' = Append(got, [type |-> h.type,
                                 payload |-> SubSeq(wire, 6, 5 + n)])
          /\ wire' = SubSeq(wire, 6 + n, Len(wire))
    /\ UNCHANGED <<hin, hbytes, hout, sent, notCodec>>

FramePayloads ==
    UNION { [1..n -> PayloadBytes] : n \in 0..MaxFrame }

NextCodec ==
    \/ /\ ~hin.set /\ sent = <<>>
       /\ \E pType \in Kinds, hi \in HalfSamples, lo \in HalfSamples :
             CodecEncode(pType, U32(hi, lo))
    \/ CodecDecode
    \/ /\ ~hin.set
       /\ \E pType \in KindSamples, payload \in FramePayloads :
             WriteFrame(pType, payload)
    \/ ReadFrame

SpecCodec == Init /\ [][NextCodec]_vars


\* ------------------------------------------------------ readers of frames
notReader == <<coreVars, codecVars, pl, nm, hs, drv, auditVars, lateVars>>

\* the packet types
TypePAKE == 0
TypeHandshake == 1
TypeData == 2
TypeAck == 3
TypeError == 4
TypeCancel == 5
TypeRangeReq == 6

\* the packet types and a byte that is none of them
ReaderKinds == {TypePAKE, TypeHandshake, TypeData, TypeAck, TypeError,
                TypeCancel, TypeRangeReq, 255}

\* the lengths a peer may put in a header: 0, 1, 8, 16, 64 KiB, 10 MiB,
\* and lengths next to and above those
ReaderLengths == { U32(hi, lo) : hi \in {0, 1, 160, 161}, lo \in {0, 1, 8, 16} }

\* order of two uint32
Gt(a, b) == a.hi > b.hi \/ (a.hi = b.hi /\ a.lo > b.lo)

\* buf := make([]byte, ChunkSize), 64 KiB
ChunkBuf == U32(1, 0)

\* the places that read frames from a peer: the receiver's Handshake, the
\* sequential receive loop, a parallel worker's Handshake and its receive
\* loop, and the sender after its Handshake
Sites == {"handshake", "seq", "parhs", "par", "sender"}

\* the reader reaches its first DecodeHeader
ReaderOpen(site) ==
    /\ rd.pc = "idle"
    /\ rd' = [rd EXCEPT !.site = site, !.pc = "header",
                        !.buf = IF site \in {"seq", "par"} THEN ChunkBuf
                                ELSE @]
    /\ UNCHANGED notReader

\* if len(buf) < length { buf = make([]byte, length) }
Grow(buf, length) == IF Gt(length, buf) THEN length ELSE buf

\* what the reader does with the header (pType, length) DecodeHeader
\* returned: "payload" is io.ReadFull (or binary.Read, io.CopyN) of the
\* payload, "header" the next turn of its loop, "end" a break out of the
\* loop, "done" going on without a payload, "err" a returned error
OnHeader(r, pType, length) ==
    LET h == [type |-> pType, length |-> length, set |-> TRUE]
        to(pc) == [r EXCEPT !.hdr = h, !.pc = pc]
    IN CASE r.site = "handshake" ->
              IF pType # TypeHandshake THEN to("err")
              ELSE [to("payload") EXCEPT !.buf = length]
         [] r.site = "seq" ->
              IF pType = TypeCancel THEN to("err")
              ELSE IF pType = TypeData
                   THEN [to("payload") EXCEPT !.buf = Grow(r.buf, length)]
                   ELSE to("header")
         [] r.site = "parhs" -> to("payload")
         [] r.site = "par" ->
              IF pType = TypeData
              THEN [to("payload") EXCEPT !.buf = Grow(r.buf, length)]
              ELSE to("end")
         [] r.site = "sender" ->
              IF pType = TypeAck
              THEN IF length = U32(0, 8) THEN to("payload") ELSE to("done")
              ELSE IF pType = TypeRangeReq
                   THEN IF length # U32(0, 16) THEN to("err")
                        ELSE to("payload")
                   ELSE to("err")

\* DecodeHeader returns a header
ReadHeader(pType, length) ==
    /\ rd.pc = "header"
    /\ rd' = OnHeader(rd, pType, length)
    /\ UNCHANGED notReader

\* DecodeHeader fails: io.EOF ends the two receive loops, as does any
\* error of the sequential loop once totalRecv == meta.Size
OnHeaderError(site, eof, all) ==
    IF site = "seq" /\ (eof \/ all) THEN "end"
    ELSE IF site = "par" /\ eof THEN "end"
    ELSE "err"

ReadHeaderFails(eof, all) ==
    /\ rd.pc = "header"
    /\ rd' = [rd EXCEPT !.pc = OnHeaderError(rd.site, eof, all)]
    /\ UNCHANGED notReader

\* the error of DecodeHeader when the stream ends after k of the header's
\* five bytes: binary.Read of the type byte, then of the four length
\* bytes, each giving io.EOF if it got no byte and io.ErrUnexpectedEOF if
\* it got some
HeaderEndsWith(k) == IF k <= 1 THEN "EOF" ELSE "ErrUnexpectedEOF"

\* the stream ends inside a header, after k bytes of it
HeaderCut(k, all) ==
    /\ rd.pc = "header" /\ k \in 1..4
    /\ rd' = [rd EXCEPT
                 !.pc = OnHeaderError(rd.site, HeaderEndsWith(k) = "EOF", all),
                 !.cut = "header"]
    /\ UNCHANGED notReader

\* the payload has been read, or the stream failed before its end
ReadPayload(ok) ==
    /\ rd.pc = "payload"
    /\ rd' = [rd EXCEPT !.pc =
                 IF ~ok /\ rd.site # "parhs" THEN "err"
                 ELSE IF rd.site \in {"seq", "par"} THEN "header"
                 ELSE "done",
                        !.cut = IF ok THEN @ ELSE "payload"]
    /\ UNCHANGED notReader

NextReader ==
    \/ \E site \in Sites : ReaderOpen(site)
    \/ \E pType \in ReaderKinds, length \in ReaderLengths :
          ReadHeader(pType, length)
    \/ \E eof \in BOOLEAN, all \in BOOLEAN : ReadHeaderFails(eof, all)
    \/ \E k \in 1..4, all \in BOOLEAN : HeaderCut(k, all)
    \/ \E ok \in BOOLEAN : ReadPayload(ok)

SpecReader == Init /\ [][NextReader]_vars


\* ------------------------------------- PerformPAKE, lengths of sub-frames
notPakeLen == <<coreVars, codecVars, rd, nm, hs, drv, auditVars, lateVars>>

\* the length PerformPAKE gives each sub-frame it writes: no payload for
\* the Hello, make([]byte, 16) for the salt, make([]byte, 32) for the
\* nonce, and HMAC-SHA256 tags
SentLen(msg) ==
    CASE msg = "hello" -> 0
      [] msg = "salt"  -> 16
      [] msg = "nonce" -> 32
      [] msg = "ctag"  -> 32
      [] msg = "stag"  -> 32

\* the lengths a peer may put in the header of a sub-frame
PakeLengths == {0, 8, 16, 32, 33}

\* PerformPAKE(stream, password, role) is called
PlStart(role) ==
    /\ pl.ret = "idle"
    /\ pl' = [pl EXCEPT !.role = role, !.pc = 1, !.ret = "none"]
    /\ UNCHANGED notPakeLen

PlMsg == Script(pl.role)[pl.pc]

\* the call after a sub-frame: the next one, or return nil after the last
PlAdvance(p) ==
    IF p.pc = Len(Script(p.role)) THEN [p EXCEPT !.ret = "ok"]
    ELSE [p EXCEPT !.pc = @ + 1]

\* the call writes its own sub-frame; the sender draws its salt and nonce
PlWrite ==
    /\ pl.ret = "none" /\ Writes(pl.role, PlMsg)
    /\ pl' = PlAdvance([pl EXCEPT
                 !.salt = IF PlMsg = "salt" THEN SentLen("salt") ELSE @,
                 !.nonce = IF PlMsg = "nonce" THEN SentLen("nonce") ELSE @])
    /\ UNCHANGED notPakeLen

\* subtle.ConstantTimeCompare(gotTag, ownTag): 0 when the lengths differ,
\* else whether the bytes are those of the own tag
TagMatches(length, same) == length = SentLen("ctag") /\ same

\* the call reads a sub-frame: DecodeHeader gives (pType, length); for the
\* Hello the length is dropped and no payload is read; otherwise
\* make([]byte, length) and io.ReadFull; the salt and the nonce are kept
\* as read, a tag is compared with the own tag. same: the peer sent the
\* bytes of the tag for the code, the salt and the nonce the call holds
PlRead(pType, length, same) ==
    /\ pl.ret = "none" /\ ~Writes(pl.role, PlMsg)
    /\ LET p == [pl EXCEPT !.last = [msg |-> PlMsg, length |-> length]]
       IN pl' =
          IF pType # TypePAKE THEN [p EXCEPT !.ret = "err"]
          ELSE CASE PlMsg = "hello" -> PlAdvance(p)
                 [] PlMsg = "salt"  -> PlAdvance([p EXCEPT !.salt = length])
                 [] PlMsg = "nonce" -> PlAdvance([p EXCEPT !.nonce = length])
                 [] PlMsg \in {"ctag", "stag"} ->
                       IF TagMatches(length, same) THEN PlAdvance(p)
                       ELSE [p EXCEPT !.ret = "autherr"]
    /\ UNCHANGED notPakeLen

\* the stream fails under a DecodeHeader or io.ReadFull of the call
PlReadFails ==
    /\ pl.ret = "none" /\ ~Writes(pl.role, PlMsg)
    /\ pl' = [pl EXCEPT !.ret = "err"]
    /\ UNCHANGED notPakeLen

NextPakeLen ==
    \/ \E role \in 0..1 : PlStart(role)
    \/ PlWrite
    \/ \E pType \in {TypePAKE, TypeData}, length \in PakeLengths,
          same \in BOOLEAN : PlRead(pType, length, same)
    \/ PlReadFails

SpecPakeLen == Init /\ [][NextPakeLen]_vars


\* ------------------------------------------------- names and paths on disk
\* most characters of the "name" of a Handshake
MaxName == 3

notName == <<coreVars, codecVars, rd, pl, hs, drv, auditVars, lateVars>>

\* a string is a sequence of characters; the names a sender may put in
\* the Handshake are made of a letter, the dot and the separator
NameChars == {"a", ".", "/"}
Names == UNION { [1..n -> NameChars] : n \in 0..MaxName }

ReceivedFile == <<"received_file">>

RECURSIVE StripSlashes(_)
StripSlashes(path) ==
    IF path # <<>> /\ path[Len(path)] = "/"
    THEN StripSlashes(SubSeq(path, 1, Len(path) - 1))
    ELSE path

\* index of the last c in path, 0 if there is none
LastIndex(path, c) ==
    LET I == { i \in 1..Len(path) : path[i] = c }
    IN IF I = {} THEN 0 ELSE CHOOSE i \in I : \A j \in I : j <= i

\* filepath.Base: "." for the empty path; trailing separators dropped;
\* the part after the last separator; "/" if that leaves nothing
Base(path) ==
    IF path = <<>> THEN <<".">>
    ELSE LET t == StripSlashes(path)
             e == SubSeq(t, LastIndex(t, "/") + 1, Len(t))
         IN IF e = <<>> THEN <<"/">> ELSE e

\* safeName := filepath.Base(meta.Name), replaced when "." or "/"
SafeName(name) ==
    LET b == Base(name)
    IN IF b = <<".">> \/ b = <<"/">> THEN ReceivedFile ELSE b

\* filepath.Ext of a name without separators: from its last dot on
Ext(name) ==
    LET i == LastIndex(name, ".")
    IN IF i = 0 THEN <<>> ELSE SubSeq(name, i, Len(name))

\* strings.TrimSuffix
TrimSuffix(str, suffix) ==
    IF Len(suffix) <= Len(str)
       /\ SubSeq(str, Len(str) - Len(suffix) + 1, Len(str)) = suffix
    THEN SubSeq(str, 1, Len(str) - Len(suffix))
    ELSE str

\* the elements of a path, split at the separators
RECURSIVE Split(_)
Split(path) ==
    LET I == { i \in 1..Len(path) : path[i] = "/" }
    IN IF I = {} THEN <<path>>
       ELSE LET i == CHOOSE k \in I : \A j \in I : k <= j
            IN <<SubSeq(path, 1, i - 1)>>
               \o Split(SubSeq(path, i + 1, Len(path)))

\* filepath.Clean of outputDir + "/" + the elements: where the path lies
\* relative to outputDir (up: levels above it, comps: the way down)
RECURSIVE Resolve(_, _)
Resolve(loc, elems) ==
    IF elems = <<>> THEN loc
    ELSE LET e == Head(elems)
             next ==
                IF e = <<>> \/ e = <<".">> THEN loc
                ELSE IF e = <<".", ".">>
                     THEN IF loc.comps # <<>>
                          THEN [loc EXCEPT !.comps =
                                   SubSeq(@, 1, Len(@) - 1)]
                          ELSE [loc EXCEPT !.up = @ + 1]
                     ELSE [loc EXCEPT !.comps = Append(@, e)]
         IN Resolve(next, Tail(elems))

\* filepath.Join(outputDir, elem)
Join(elem) == Resolve([up |-> 0, comps |-> <<>>], Split(elem))

\* outputDir and the directories above it exist
IsDir(loc) == loc.comps = <<>>

\* handleReceiveSession has decoded the Handshake
NameHandshake(name) ==
    /\ nm.pc = "idle"
    /\ nm' = [nm EXCEPT !.pc = "named", !.name = name,
                        !.safe = SafeName(name)]
    /\ UNCHANGED notName

Modes == {"hashed", "nohash", "parallel"}

\* the session creates its files: <safeName>.partial, or in parallel mode
\* <safeName>.parallel.meta and <safeName>.parallel.part
NameCreate(mode) ==
    /\ nm.pc = "named"
    /\ nm' = [nm EXCEPT !.pc = "open", !.mode = mode,
                 !.made = IF mode = "parallel"
                          THEN {Join(nm.safe \o <<".parallel.meta">>),
                                Join(nm.safe \o <<".parallel.part">>)}
                          ELSE {Join(nm.safe \o <<".partial">>)}]
    /\ UNCHANGED notName

\* "%s (%d)%s" of the name without its extension, the counter, and the
\* extension
AltName(safe, counter) ==
    TrimSuffix(safe, Ext(safe)) \o <<" (", ToString(counter), ")">>
        \o Ext(safe)

\* the path the download is renamed to; taken marks that a file or a
\* directory is at filepath.Join(outputDir, safeName). The verified
\* sequential branch then takes the first name with a counter
FinalPath(safe, mode, taken) ==
    IF mode = "hashed" /\ (taken \/ IsDir(Join(safe)))
    THEN Join(AltName(safe, 1))
    ELSE Join(safe)

\* the session ends with success: os.Rename to the final path
NameRename(taken) ==
    /\ nm.pc = "open"
    /\ nm' = [nm EXCEPT !.pc = "done",
                        !.dest = {FinalPath(nm.safe, nm.mode, taken)}]
    /\ UNCHANGED notName

NextName ==
    \/ \E name \in Names : NameHandshake(name)
    \/ \E mode \in Modes : NameCreate(mode)
    \/ \E taken \in BOOLEAN : NameRename(taken)

SpecName == Init /\ [][NextName]_vars


\* ------------------------------------- one session, files and text payloads
\* the size above which a text Handshake is rejected (1 MiB, scaled down)
TextLimit == 1

notHs == <<coreVars, codecVars, rd, pl, nm, drv, auditVars, lateVars>>

PayloadKinds == {"file", "text"}

\* binary.Write(stream, binary.LittleEndian, int64) of an offset below
\* 2^24: eight bytes, lowest first
LittleEndian64(v) ==
    <<v % 256, (v \div 256) % 256, (v \div 65536) % 256, 0, 0, 0, 0, 0>>

\* EncodeHeader(stream, TypeAck, 8), then the offset
AckFrame(offset) ==
    EncodeHeader(TypeAck, U32(0, 8)) \o LittleEndian64(offset)

\* useParallel := meta.Size > 100 MiB && meta.Type != "text"
ChoosesParallel(kind, size) == UseParallel(size) /\ kind # "text"

\* the offset of the Ack: the size of .partial when resuming a file
AckOffset_anyPartial(kind, pf, size) ==
    IF kind # "text" /\ pf.exists THEN Len(pf.data) ELSE 0
AckOffset(kind, pf, size) ==
    IF kind # "text" THEN ResumeOffset(pf, size) ELSE 0

\* where the receive loop writes: the .partial file, or for text a
\* bytes.Buffer
Sink_file(kind) == "file"
Sink(kind) == IF kind = "text" THEN "buffer" ELSE "file"

\* an earlier session for a file of this name was interrupted after n
\* bytes and left its .partial
HsEarlier(n) ==
    /\ hs.pc = "idle" /\ ~hs.pfile.exists
    /\ hs' = [hs EXCEPT !.pfile = File(SubSeq(Payload(MaxSize), 1, n))]
    /\ UNCHANGED notHs

\* handleReceiveSession from the Handshake to its receive loop: a text of
\* more than the limit is refused; a large file goes to downloadParallel,
\* which creates <safe_name>.parallel.meta and <safe_name>.parallel.part;
\* else the Ack is written and the sink is opened (O_APPEND when
\* resuming, os.Create otherwise)
HsHandshake(kind, size, hk) ==
    /\ hs.pc = "idle"
    /\ LET h == [hs EXCEPT !.kind = kind, !.size = size, !.hk = hk,
                           !.pre = hs.pfile]
           offset == AckOffset(kind, hs.pfile, size)
       IN hs' =
          IF kind = "text" /\ size > TextLimit
          THEN [h EXCEPT !.pc = "done", !.ret = "err"]
          ELSE IF ChoosesParallel(kind, size)
          THEN [h EXCEPT !.pc = "done", !.mode = "parallel",
                         !.others = {"parallel.meta", "parallel.part"}]
          ELSE [h EXCEPT !.pc = "recv", !.mode = "sequential",
                         !.acks = Append(@, AckFrame(offset)),
                         !.pfile = IF Sink(kind) = "buffer" \/ offset > 0
                                   THEN @ ELSE File(<<>>)]
    /\ UNCHANGED notHs

\* the bytes of the payload the session holds: those of the resumed
\* .partial and those received
HsHeld == IF Sink(hs.kind) = "file" THEN hs.pfile.data ELSE hs.recv

\* a Data frame with the next n bytes: mw.Write to the sink
HsData(n) ==
    /\ hs.pc = "recv"
    /\ Len(HsHeld) + n <= hs.size
    /\ LET bytes == SubSeq(Payload(hs.size), Len(HsHeld) + 1,
                           Len(HsHeld) + n)
       IN hs' = [hs EXCEPT
                   !.recv = @ \o bytes,
                   !.pfile = IF Sink(hs.kind) = "file"
                             THEN File(@.data \o bytes) ELSE @]
    /\ UNCHANGED notHs

\* no "hash" in the Handshake, or it equals the digest of the bytes held
HsVerified ==
    LET mh == HandshakeHash(Payload(hs.size), hs.hk)
    IN mh = NoHash \/ Sha256Hex(HsHeld) = mh

HsEnds == {"eof", "cancel", "err"}

\* the receive loop ends: a Cancel frame or a stream error is returned as
\* an error; after io.EOF the digest is compared when there is one, the
\* text is printed for the caller, a file is renamed to its final name
HsEnd(how) ==
    /\ hs.pc = "recv"
    /\ hs' =
         IF how # "eof" \/ ~HsVerified
         THEN [hs EXCEPT !.pc = "done", !.ret = "err"]
         ELSE IF Sink(hs.kind) = "buffer"
         THEN [hs EXCEPT !.pc = "done", !.ret = "ok",
                         !.out = [given |-> TRUE, text |-> hs.recv]]
         ELSE [hs EXCEPT !.pc = "done", !.ret = "ok",
                         !.pfile = NoFile, !.others = @ \cup {"final"}]
    /\ UNCHANGED notHs

NextHs ==
    \/ \E n \in 0..MaxSize : HsEarlier(n)
    \/ \E kind \in PayloadKinds, size \in 0..MaxSize,
          hk \in HashKinds : HsHandshake(kind, size, hk)
    \/ \E n \in 1..MaxFrame : HsData(n)
    \/ \E how \in HsEnds : HsEnd(how)

SpecHs == Init /\ [][NextHs]_vars


\* ------------------------------------------------- RunReceiver's dial loop
\* most dials of one RunReceiver
MaxAttempts == 14

notDriver == <<coreVars, codecVars, rd, pl, nm, hs, auditVars, lateVars>>

\* maxRetries := 10
maxRetries == 10

\* if retryCount > maxRetries { ... return }
GivesUp_never(retryCount) == FALSE
GivesUp(retryCount) == retryCount > maxRetries

\* tr.Dial fails: retryCount++, then give up, or sleep retryCount seconds
\* and dial again
DialFails ==
    /\ drv.pc = "loop" /\ drv.dialed < MaxAttempts
    /\ LET rc == drv.retryCount + 1
       IN drv' = [drv EXCEPT !.retryCount = rc,
                             !.dialed = @ + 1, !.failed = @ + 1,
                             !.pc = IF GivesUp(rc) THEN "fatal" ELSE "loop",
                             !.sleep = IF GivesUp(rc) THEN @ ELSE rc]
    /\ UNCHANGED notDriver

\* what follows a dial that succeeded: OpenStreamSync fails, or the
\* session is done, is cancelled by the sender, or is interrupted
Outcomes == {"nostream", "done", "cancelled", "interrupted"}

\* tr.Dial succeeds: retryCount = 0; the loop returns when the session is
\* done or cancelled, and else closes, sleeps a second and dials again
DialSucceeds(outcome) ==
    /\ drv.pc = "loop" /\ drv.dialed < MaxAttempts
    /\ drv' = [drv EXCEPT !.retryCount = 0,
                          !.dialed = @ + 1, !.failed = 0,
                          !.pc = IF outcome \in {"done", "cancelled"}
                                 THEN "returned" ELSE "loop",
                          !.sleep = IF outcome \in {"done", "cancelled"}
                                    THEN @ ELSE 1]
    /\ UNCHANGED notDriver

NextDriver ==
    \/ DialFails
    \/ \E outcome \in Outcomes : DialSucceeds(outcome)

SpecDriver == Init /\ [][NextDriver]_vars


\* ------------------------------------------------------------ audit log
\* the number of entries WriteEntry keeps (1000, scaled down)
HistoryCap == 3
\* most WriteEntry calls made one after the other, and their timestamps
MaxEntries == 5
MaxTs == 3
\* most goroutines that write at the same time, and calls of each
MaxWriters == 3
MaxPerWriter == 2
\* most calls by which the goroutines together exceed the cap
MaxOver == 1

notAudit == <<coreVars, codecVars, rd, pl, nm, hs, drv, lateVars>>

\* a line of the file: a LogEntry as JSON; long: the line exceeds the
\* 64 KiB a bufio.Scanner takes as one token; junk: not JSON (the zero
\* bytes of a hole)
Line(id, ts, long) == [id |-> id, ts |-> ts, long |-> long, junk |-> FALSE]
JunkLine == [id |-> <<>>, ts |-> 0, long |-> FALSE, junk |-> TRUE]

\* sort.Slice with Timestamp.After: newest first (the order of entries
\* with equal timestamps is not fixed by sort.Slice; here an entry goes
\* before those it equals)
RECURSIVE InsertNewestFirst(_, _)
InsertNewestFirst(e, sorted) ==
    IF sorted = <<>> \/ e.ts >= Head(sorted).ts THEN <<e>> \o sorted
    ELSE <<Head(sorted)>> \o InsertNewestFirst(e, Tail(sorted))

RECURSIVE SortNewestFirst(_)
SortNewestFirst(entries) ==
    IF entries = <<>> THEN <<>>
    ELSE InsertNewestFirst(Head(entries), SortNewestFirst(Tail(entries)))

\* index of the first line the scanner cannot take, 0 if there is none
FirstLong(lines) ==
    LET I == { i \in 1..Len(lines) : lines[i].long }
    IN IF I = {} THEN 0 ELSE CHOOSE i \in I : \A j \in I : i <= j

\* the lines json.Unmarshal accepts
RECURSIVE Wellformed(_)
Wellformed(lines) ==
    IF lines = <<>> THEN <<>>
    ELSE (IF Head(lines).junk THEN <<>> ELSE <<Head(lines)>>)
         \o Wellformed(Tail(lines))

\* LoadHistory: no entries when the file does not exist; else the lines
\* scanned up to the first one that is too long for the scanner, which
\* ends the scan with scanner.Err(); malformed lines skipped; sorted
LoadHistory(h) ==
    IF ~h.exists THEN [entries |-> <<>>, err |-> FALSE]
    ELSE LET k == FirstLong(h.lines)
             scanned == IF k = 0 THEN h.lines ELSE SubSeq(h.lines, 1, k - 1)
         IN [entries |-> SortNewestFirst(Wellformed(scanned)),
             err |-> k # 0]

\* WriteEntry rewrites the file when LoadHistory gave no error and at
\* least 1000 entries
Rewrites(l) == ~l.err /\ Len(l.entries) >= HistoryCap

\* all := append([]LogEntry{entry}, entries...), sorted; keep := all[:1000]
Keep(entry, entries) ==
    SubSeq(SortNewestFirst(<<entry>> \o entries), 1, HistoryCap)

Reverse(seq) == [i \in 1..Len(seq) |-> seq[Len(seq) + 1 - i]]

\* the file after WriteEntry(entry) has run alone: RewriteHistory(keep)
\* writes the kept entries oldest first; else the line is appended
Written(h, entry) ==
    LET l == LoadHistory(h)
    IN IF Rewrites(l)
       THEN [exists |-> TRUE, lines |-> Reverse(Keep(entry, l.entries))]
       ELSE [exists |-> TRUE, lines |-> Append(h.lines, entry)]

\* WriteEntry, no other call running
AuWrite(ts, long) ==
    /\ cw.n = 0 /\ au.wrote < MaxEntries
    /\ hist' = Written(hist, Line(<<0, au.wrote + 1>>, ts, long))
    /\ au' = [au EXCEPT !.wrote = @ + 1, !.last = "write",
                        !.newest = IF ts > @ THEN ts ELSE @]
    /\ UNCHANGED <<cw, notAudit>>

\* ClearHistory: os.Remove of the file
AuClear ==
    /\ cw.n = 0
    /\ hist' = NoHistory
    /\ au' = [au EXCEPT !.last = "clear", !.newest = 0]
    /\ UNCHANGED <<cw, notAudit>>

\* LoadHistory, called by a user of the log
AuLoad ==
    /\ cw.n = 0
    /\ au' = [au EXCEPT !.last = "load",
                        !.loaded = LoadHistory(hist).entries]
    /\ UNCHANGED <<hist, cw, notAudit>>

NextAudit ==
    \/ \E ts \in 1..MaxTs, long \in BOOLEAN : AuWrite(ts, long)
    \/ AuClear
    \/ AuLoad

\* WriteEntry, ClearHistory and LoadHistory called one after the other
SpecAudit == Init /\ [][NextAudit]_vars

\* n goroutines start, each to call WriteEntry m times
CwStart(n, m) ==
    /\ cw.n = 0 /\ au.wrote = 0 /\ au.last = ""
    /\ n * m <= HistoryCap + MaxOver
    /\ cw' = [cw EXCEPT !.n = n, !.m = m,
                 !.w = [i \in 1..n |->
                          [pc |-> "load", left |-> m, entry |-> JunkLine,
                           seen |-> 0, keep |-> <<>>, at |-> 0]]]
    /\ UNCHANGED <<hist, au, notAudit>>

\* the goroutine after one WriteEntry has returned
CwReturned(g) ==
    [g EXCEPT !.left = @ - 1, !.pc = IF g.left = 1 THEN "done" ELSE "load"]

\* WriteEntry up to its decision: the entry gets time.Now(), LoadHistory
\* reads the file as it is
CwLoad(i) ==
    /\ i \in 1..cw.n /\ cw.w[i].pc = "load"
    /\ LET g == cw.w[i]
           e == Line(<<i, cw.m - g.left + 1>>, cw.clock + 1, FALSE)
           l == LoadHistory(hist)
       IN cw' = [cw EXCEPT !.clock = @ + 1,
                    !.w[i] = [g EXCEPT
                        !.entry = e, !.seen = Len(hist.lines),
                        !.pc = IF Rewrites(l) THEN "create" ELSE "append",
                        !.keep = IF Rewrites(l)
                                 THEN Reverse(Keep(e, l.entries)) ELSE <<>>]]
    /\ UNCHANGED <<hist, au, notAudit>>

\* f.Write on a file opened with O_APPEND: the line goes to the end of
\* the file as it is at the write, not as it was when the call read it
AppendLine_atSeen(lines, seen, line) ==
    Append(SubSeq(lines, 1, Min(seen, Len(lines))), line)
AppendLine(lines, seen, line) == Append(lines, line)

\* the append of WriteEntry: OpenFile(O_APPEND|O_CREATE) and one Write
CwAppend(i) ==
    /\ i \in 1..cw.n /\ cw.w[i].pc = "append"
    /\ hist' = [exists |-> TRUE,
                lines |-> AppendLine(hist.lines, cw.w[i].seen,
                                     cw.w[i].entry)]
    /\ cw' = [cw EXCEPT !.w[i] = CwReturned(@)]
    /\ UNCHANGED <<au, notAudit>>

\* RewriteHistory: os.Create truncates the file
CwCreate(i) ==
    /\ i \in 1..cw.n /\ cw.w[i].pc = "create"
    /\ hist' = [exists |-> TRUE, lines |-> <<>>]
    /\ cw' = [cw EXCEPT !.w[i].pc = "rewrite", !.w[i].at = 1]
    /\ UNCHANGED <<au, notAudit>>

\* a Write at line pos of a file opened without O_APPEND: over the line
\* that is there, or past the end behind a hole (lines taken as equally
\* long)
WriteAtLine(lines, pos, line) ==
    [k \in 1..(IF pos > Len(lines) THEN pos ELSE Len(lines)) |->
        IF k = pos THEN line
        ELSE IF k <= Len(lines) THEN lines[k] ELSE JunkLine]

\* RewriteHistory: the next f.Write of its loop, and its return after
\* the last
CwRewrite(i) ==
    /\ i \in 1..cw.n /\ cw.w[i].pc = "rewrite"
    /\ LET g == cw.w[i]
       IN IF g.at <= Len(g.keep)
          THEN /\ hist' = [hist EXCEPT
                             !.lines = WriteAtLine(@, g.at, g.keep[g.at])]
               /\ cw' = [cw EXCEPT !.w[i].at = @ + 1]
          ELSE /\ cw' = [cw EXCEPT !.w[i] = CwReturned(@)]
               /\ UNCHANGED hist
    /\ UNCHANGED <<au, notAudit>>

NextAuditConc ==
    \/ \E n \in 1..MaxWriters, m \in 1..MaxPerWriter : CwStart(n, m)
    \/ \E i \in 1..MaxWriters : CwLoad(i)
    \/ \E i \in 1..MaxWriters : CwAppend(i)
    \/ \E i \in 1..MaxWriters : CwCreate(i)
    \/ \E i \in 1..MaxWriters : CwRewrite(i)

\* goroutines that call WriteEntry at the same time
SpecAuditConc == Init /\ [][NextAuditConc]_vars


\* ---------------------------------------------------------- SecureStream
\* TagSize (16) and the largest frame Read accepts (10 MiB), scaled
TagSize == 1
MaxSecureFrame == 3
\* most bytes a Write is given, most bytes written in all, largest Read
\* buffer
MaxPlain == 3
MaxWritten == 6
MaxReadBuf == 3

notSecure == <<earlyVars, pz, ch, ml>>

\* aead.Seal(nil, nonce, p, nil): the ciphertext is as long as p plus the
\* tag; aead.Open with the same key and nonce gives p back
Seal(nonce, p) == [nonce |-> nonce, plain |-> p, len |-> Len(p) + TagSize]
Open(nonce, ciphertext) == ciphertext.plain

\* the next n bytes a writer sends: every byte of the stream is its own
\* position, so that a lost or repeated byte shows
NextBytes(n) == [i \in 1..n |-> Len(ss.written) + i]

\* Write(p), len(p) > 0: one frame [Length][Nonce][Ciphertext+Tag]; the
\* nonce is fresh
SecureWrite(n) ==
    /\ ss.err = "" /\ n > 0 /\ Len(ss.written) + n <= MaxWritten
    /\ LET p == NextBytes(n)
           nonce == Len(ss.written)
           ciphertext == Seal(nonce, p)
       IN ss' = [ss EXCEPT
                   !.wire = Append(@, [frameLen |-> ciphertext.len,
                                       nonce |-> nonce,
                                       ciphertext |-> ciphertext]),
                   !.written = @ \o p]
    /\ UNCHANGED notSecure

\* n = copy(p, readBuf[readOffset:]); readOffset += n; the buffer is
\* dropped once it is used up
Copied(buf, off, size) ==
    LET n == Min(size, Len(buf) - off)
    IN [bytes |-> SubSeq(buf, off + 1, off + n),
        readBuf |-> IF off + n >= Len(buf) THEN <<>> ELSE buf,
        readOffset |-> IF off + n >= Len(buf) THEN 0 ELSE off + n]

\* Read(p), len(p) = size: from the buffer if it holds bytes, else the
\* next frame is read whole, checked against the frame limit, opened and
\* copied from
SecureRead(size) ==
    /\ ss.err = ""
    /\ IF Len(ss.readBuf) > 0
       THEN LET c == Copied(ss.readBuf, ss.readOffset, size)
            IN ss' = [ss EXCEPT !.out = @ \o c.bytes,
                                !.readBuf = c.readBuf,
                                !.readOffset = c.readOffset]
       ELSE /\ ss.wire # <<>>
            /\ LET f == Head(ss.wire)
               IN IF f.frameLen > MaxSecureFrame
                  THEN ss' = [ss EXCEPT !.err = "oversized frame"]
                  ELSE LET c == Copied(Open(f.nonce, f.ciphertext), 0, size)
                       IN ss' = [ss EXCEPT !.wire = Tail(@),
                                           !.out = @ \o c.bytes,
                                           !.readBuf = c.readBuf,
                                           !.readOffset = c.readOffset]
    /\ UNCHANGED notSecure

NextSecure ==
    \/ \E n \in 1..MaxPlain : SecureWrite(n)
    \/ \E size \in 0..MaxReadBuf : SecureRead(size)

\* a writer and a reader with the same key over one wire
SpecSecure == Init /\ [][NextSecure]_vars


\* ------------------------------------------- RunSender prepares its payload
\* largest info.Size() of the path given (or length of the text), largest
\* archive CompressPath writes
MaxPath == 3
MaxArchive == 3

notPayload == <<earlyVars, ss, ch, ml>>

PayloadModes == {"text", "file", "tar", "zip"}

\* the reader handlers stream from: the text, the file at the path, or
\* the temporary archive CompressPath wrote (its length does not follow
\* from the size of the path)
PayloadLength(mode, pathSize, archive) ==
    IF mode \in {"tar", "zip"} THEN archive ELSE pathSize

\* fileSize: len(textContent), or info.Size() of os.Stat(filePath), taken
\* before the compression branch; info is set anew from the archive but
\* fileSize is not
FileSize(mode, pathSize, archive) == pathSize

\* RunSender up to the listener
Prepare(mode, pathSize, archive) ==
    /\ pz.pc = "idle"
    /\ mode \in {"tar", "zip"} \/ archive = 0
    /\ pz' = [pz EXCEPT !.pc = "ready", !.mode = mode,
                 !.payload = PayloadLength(mode, pathSize, archive),
                 !.fileSize = FileSize(mode, pathSize, archive)]
    /\ UNCHANGED notPayload

\* handleConnection on the first stream: Seek(0, 0), io.Copy(hasher, file)
\* to the end, the Handshake with "size": fileSize, then the Ack with
\* offset 0 of a full sequential transfer and Seek(0)
PayloadHandshake ==
    /\ pz.pc = "ready"
    /\ pz' = [pz EXCEPT !.pc = "send", !.hashed = pz.payload,
                        !.size = pz.fileSize]
    /\ UNCHANGED notPayload

\* one turn of the send loop with bytesRemaining = -1: file.Read into the
\* chunk buffer and a Data frame of what it read; io.EOF ends the loop
PayloadSend ==
    /\ pz.pc = "send"
    /\ LET n == Min(MaxFrame, pz.payload - pz.sent)
       IN pz' = [pz EXCEPT !.sent = @ + n,
                           !.pc = IF n = 0 THEN "done" ELSE "send"]
    /\ UNCHANGED notPayload

\* the next RunSender
PayloadAgain ==
    /\ pz.pc = "done"
    /\ pz' = [pc |-> "idle", mode |-> "", payload |-> 0, fileSize |-> 0,
              size |-> 0, hashed |-> 0, sent |-> 0]
    /\ UNCHANGED notPayload

NextPayload ==
    \/ \E mode \in PayloadModes, pathSize \in 0..MaxPath,
          archive \in 0..MaxArchive : Prepare(mode, pathSize, archive)
    \/ PayloadHandshake
    \/ PayloadSend
    \/ PayloadAgain

\* RunSender and one full sequential transfer
SpecPayload == Init /\ [][NextPayload]_vars


\* ------------------------------- downloadParallel, goroutines and channels
\* most ranges of a journal, most Data frames on a worker's stream, and
\* the capacity of progressChan (100, scaled)
MaxRanges == 2
MaxData == 2
ProgressCap == 1

notChannels == <<earlyVars, ss, pz, ml>>

\* errChan := make(chan error, concurrency), concurrency being the number
\* of ranges of the journal
ErrCap_unbuffered(concurrency) == 0
ErrCap(concurrency) == concurrency

\* downloadParallel up to the end of its launch loop: the channels are
\* made and a goroutine is started for each of the n ranges not done
ChStart(ranges, n) ==
    /\ ch.main = "idle" /\ n <= ranges
    /\ ch' = [ch EXCEPT !.main = "launched", !.cap = ErrCap(ranges),
                        !.w = [k \in 1..n |-> [pc |-> "open", got |-> 0,
                                               errs |-> 0]]]
    /\ UNCHANGED notChannels

\* a send on a closed channel panics
Send(c, closed) == IF closed THEN [c EXCEPT !.panic = TRUE] ELSE c

\* OpenStreamSync, PerformPAKE, the Handshake and the RangeReq: ok, or
\* one of them fails and the worker goes to send its error
ChOpen(k, ok) ==
    /\ ch.w[k].pc = "open"
    /\ ch' = [ch EXCEPT !.w[k].pc = IF ok THEN "recv" ELSE "fail"]
    /\ UNCHANGED notChannels

\* errChan <- err; return (with the deferred wg.Done): the send waits
\* while the channel is full
ChSendErr(k) ==
    /\ ch.w[k].pc = "fail"
    /\ ch.errClosed \/ ch.err < ch.cap
    /\ ch' = Send([ch EXCEPT !.err = @ + 1, !.w[k].errs = @ + 1,
                             !.w[k].pc = "exit"], ch.errClosed)
    /\ UNCHANGED notChannels

\* a turn of the receive loop: a Data frame that is read and written
\* ("data"), an error of DecodeHeader, ReadFull or WriteAt ("err"), or
\* io.EOF or another frame ("end": break, markChunkDone, wg.Done)
ChFrame(k, what) ==
    /\ ch.w[k].pc = "recv"
    /\ what = "data" => ch.w[k].got < MaxData
    /\ ch' = [ch EXCEPT !.w[k].pc = CASE what = "data" -> "progress"
                                      [] what = "err" -> "fail"
                                      [] what = "end" -> "exit",
                        !.w[k].got = IF what = "data" THEN @ + 1 ELSE @]
    /\ UNCHANGED notChannels

\* progressChan <- int64(l): waits while the channel is full
ChSendProgress(k) ==
    /\ ch.w[k].pc = "progress"
    /\ ch.progClosed \/ ch.prog < ProgressCap
    /\ ch' = Send([ch EXCEPT !.prog = @ + 1, !.w[k].pc = "recv"],
                  ch.progClosed)
    /\ UNCHANGED notChannels

\* go func() { for n := range progressChan ... }: the monitor starts
\* after the launch loop
ChStartMonitor ==
    /\ ch.main = "launched"
    /\ ch' = [ch EXCEPT !.main = "wait", !.mon = "run"]
    /\ UNCHANGED notChannels

\* the monitor takes a value, or finds the channel closed and empty and
\* closes monitorDone
ChMonitor ==
    /\ ch.mon = "run"
    /\ ch.prog > 0 \/ ch.progClosed
    /\ ch' = IF ch.prog > 0 THEN [ch EXCEPT !.prog = @ - 1]
             ELSE [ch EXCEPT !.mon = "done"]
    /\ UNCHANGED notChannels

\* wg.Wait() returns when every worker has returned; close(progressChan),
\* close(errChan)
ChWait ==
    /\ ch.main = "wait"
    /\ \A k \in 1..Len(ch.w) : ch.w[k].pc = "exit"
    /\ ch' = [ch EXCEPT !.main = "join", !.progClosed = TRUE,
                        !.errClosed = TRUE]
    /\ UNCHANGED notChannels

\* <-monitorDone, then the return: an error of errChan if it holds one
ChReturn ==
    /\ ch.main = "join" /\ ch.mon = "done"
    /\ ch' = [ch EXCEPT !.main = "returned"]
    /\ UNCHANGED notChannels

ChWorker(k) ==
    \/ \E ok \in BOOLEAN : ChOpen(k, ok)
    \/ ChSendErr(k)
    \/ \E what \in {"data", "err", "end"} : ChFrame(k, what)
    \/ ChSendProgress(k)

NextChannels ==
    \/ \E ranges \in 1..MaxRanges, n \in 0..MaxRanges : ChStart(ranges, n)
    \/ \E k \in 1..Len(ch.w) : ChWorker(k)
    \/ ChStartMonitor
    \/ ChMonitor
    \/ ChWait
    \/ ChReturn

\* the goroutines of one downloadParallel; every goroutine that can take
\* a step is scheduled, and every stream opens, delivers or fails
SpecChannels ==
    /\ Init /\ [][NextChannels]_vars
    /\ \A k \in 1..MaxRanges : WF_vars(k <= Len(ch.w) /\ ChWorker(k))
    /\ WF_vars(ChStartMonitor) /\ WF_vars(ChMonitor)
    /\ WF_vars(ChWait) /\ WF_vars(ChReturn)


\* ----------------------------------------------------------- MultiListener
\* most listeners added, most connections a listener accepts
MaxListeners == 2
MaxConns == 1

notListener == <<earlyVars, ss, pz, ch>>

\* the Accept calls and the Close calls (two of each)
Callers == 1..2

\* a goroutine waiting in its select
ParkedLoops == { i \in 1..Len(ml.loops) : ml.loops[i].pc = "parked" }
ParkedAccepts == { a \in Callers : ml.acc[a].pc = "parked" }

\* Add(l): the listener is appended under mu and its accept loop started
MlAdd ==
    /\ ml.mu = 0 /\ Len(ml.loops) < MaxListeners
    /\ ml' = [ml EXCEPT !.loops = Append(@, [pc |-> "accept", n |-> 0,
                                             closed |-> FALSE])]
    /\ UNCHANGED notListener

\* l.Accept(context.Background()) returns a connection, or an error (the
\* listener was closed or has failed) and the loop returns
LoopAccept(i, ok) ==
    /\ ml.loops[i].pc = "accept"
    /\ ok => (ml.loops[i].n < MaxConns /\ ~ml.loops[i].closed)
    /\ ml' = [ml EXCEPT !.loops[i].pc = IF ok THEN "select" ELSE "exit",
                        !.loops[i].n = IF ok THEN @ + 1 ELSE @]
    /\ UNCHANGED notListener

\* select { case m.conns <- conn: ; case <-m.done: return }: one of the
\* cases that are ready (an Accept call waits on the unbuffered conns;
\* done is closed), else the goroutine waits
LoopSelect(i, a, case) ==
    /\ ml.loops[i].pc = "select"
    /\ CASE case = "send" ->
              /\ a \in ParkedAccepts
              /\ ml' = [ml EXCEPT !.loops[i].pc = "accept",
                                  !.acc[a].pc = "ret", !.acc[a].ret = "conn"]
         [] case = "done" ->
              /\ ml.done /\ a = 1
              /\ ml' = [ml EXCEPT !.loops[i].pc = "exit"]
         [] case = "wait" ->
              /\ ParkedAccepts = {} /\ ~ml.done /\ a = 1
              /\ ml' = [ml EXCEPT !.loops[i].pc = "parked"]
    /\ UNCHANGED notListener

\* a caller enters Accept(ctx); cancelled: its context is already done
AcceptCall(a, cancelled) ==
    /\ ml.acc[a].pc = "idle"
    /\ ml' = [ml EXCEPT !.acc[a] = [pc |-> "select", ret |-> "",
                                     ctx |-> cancelled, after |-> ml.returned]]
    /\ UNCHANGED notListener

\* select { case conn := <-m.conns: ; case <-ctx.Done(): ; case <-m.done: }
AcceptSelect(a, i, case) ==
    /\ ml.acc[a].pc = "select"
    /\ CASE case = "recv" ->
              /\ i \in ParkedLoops
              /\ ml' = [ml EXCEPT !.acc[a].pc = "ret", !.acc[a].ret = "conn",
                                  !.loops[i].pc = "accept"]
         [] case = "ctx" ->
              /\ ml.acc[a].ctx /\ i = 1
              /\ ml' = [ml EXCEPT !.acc[a].pc = "ret", !.acc[a].ret = "ctx"]
         [] case = "done" ->
              /\ ml.done /\ i = 1
              /\ ml' = [ml EXCEPT !.acc[a].pc = "ret",
                                  !.acc[a].ret = "closed"]
         [] case = "wait" ->
              /\ ParkedLoops = {} /\ ~ml.acc[a].ctx /\ ~ml.done /\ i = 1
              /\ ml' = [ml EXCEPT !.acc[a].pc = "parked"]
    /\ UNCHANGED notListener

\* the context of a waiting Accept call is cancelled
AcceptCancel(a) ==
    /\ ml.acc[a].pc = "parked"
    /\ ml' = [ml EXCEPT !.acc[a] = [@ EXCEPT !.pc = "ret", !.ret = "ctx",
                                             !.ctx = TRUE]]
    /\ UNCHANGED notListener

\* Close: m.mu.Lock()
CloseLock(c) ==
    /\ ml.cl[c] = "idle" /\ ml.mu = 0
    /\ ml' = [ml EXCEPT !.cl[c] = "locked", !.mu = c]
    /\ UNCHANGED notListener

\* select { case <-m.done: return nil; default: close(m.done) }
AlreadyClosed(done) == done

\* Close under mu: it returns if done is closed; else close(m.done), which
\* lets every goroutine waiting in a select take its done case, and
\* l.Close() for every listener; the deferred Unlock
CloseBody(c) ==
    /\ ml.cl[c] = "locked"
    /\ IF AlreadyClosed(ml.done)
       THEN ml' = [ml EXCEPT !.cl[c] = "ret", !.mu = 0, !.returned = TRUE]
       ELSE ml' = [ml EXCEPT
                     !.cl[c] = "ret", !.mu = 0, !.returned = TRUE,
                     !.done = TRUE, !.closes = @ + 1,
                     !.loops = [i \in 1..Len(ml.loops) |->
                                  [ml.loops[i] EXCEPT
                                     !.closed = TRUE,
                                     !.pc = IF @ = "parked" THEN "exit"
                                            ELSE @]],
                     !.acc = [a \in Callers |->
                                IF ml.acc[a].pc = "parked"
                                THEN [ml.acc[a] EXCEPT !.pc = "ret",
                                                       !.ret = "closed"]
                                ELSE ml.acc[a]]]
    /\ UNCHANGED notListener

NextListener ==
    \/ MlAdd
    \/ \E i \in 1..Len(ml.loops), ok \in BOOLEAN : LoopAccept(i, ok)
    \/ \E i \in 1..Len(ml.loops), a \in Callers,
          case \in {"send", "done", "wait"} : LoopSelect(i, a, case)
    \/ \E a \in Callers, cancelled \in BOOLEAN : AcceptCall(a, cancelled)
    \/ \E a \in Callers, i \in 1..MaxListeners,
          case \in {"recv", "ctx", "done", "wait"} : AcceptSelect(a, i, case)
    \/ \E a \in Callers : AcceptCancel(a)
    \/ \E c \in Callers : CloseLock(c)
    \/ \E c \in Callers : CloseBody(c)

\* a MultiListener with its accept loops, callers of Accept and of Close
SpecListener == Init /\ [][NextListener]_vars


\* =================================================== claims: parallel mode
RangeOf(content, c) == RangeBytes(content, c.start, c.length)

\* downloadParallel returns in this step
Returns == sched = "wait" /\ sched' = "idle"

\* C2: a parallel run that reports success leaves a final file whose
\* SHA-256 is the digest of the Handshake metadata (the whole file is
\* re-hashed and compared before the rename).
C2_ParallelDigestVerified ==
    result = "ok" => final.exists /\ Sha256Hex(final.data) = meta.hash

\* C3: when the workers have exited, the partial file is renamed, the
\* journal deleted and success reported only if every range of the journal
\* is done; with an incomplete range the result is an error and the
\* partial file and the journal stay as they are.
C3_RenameOnlyWhenAllDone ==
    [][ (Returns /\ ~(journal.exists /\ AllDone(journal)))
          => (result' = "err" /\ journal' = journal /\ part' = part
              /\ final' = final) ]_vars

\* C5: journal updates of concurrent workers are serialized: once every
\* markChunkDone call has returned, each range whose call returned is done
\* in the persisted journal, and a done flag of the journal on disk never
\* goes back to false during the download.
C5_AllMarksPersisted ==
    (sched = "wait" /\ \A k \in 1..Len(chunks) : Exited(k))
        => \A k \in 1..Len(chunks) :
              wk[k].marked => journal.exists /\ journal.chunks[k].done

C5_DoneNeverReverts ==
    [][ (sched = "wait" /\ sched' = "wait")
          => \A k \in 1..Len(chunks) :
                (journal.exists /\ journal.chunks[k].done)
                    => (journal'.exists /\ journal'.chunks[k].done) ]_vars

C5_MarkChunkDoneSerialized == []C5_AllMarksPersisted /\ C5_DoneNeverReverts

\* ranges with ids 0..N-1, ordered and contiguous from 0 to totalSize
IsPartition(totalSize, cs) ==
    /\ Len(cs) >= 1
    /\ \A k \in 1..Len(cs) : cs[k].id = k - 1 /\ cs[k].length >= 0
    /\ cs[1].start = 0
    /\ \A k \in 1..(Len(cs) - 1) : cs[k + 1].start = cs[k].start + cs[k].length
    /\ cs[Len(cs)].start + cs[Len(cs)].length = totalSize

\* C6: the journal loadOrInitState creates for a size and a worker count
\* N >= 1 has N ranges, ids 0..N-1, contiguous from 0 to total_size; the
\* journal on disk and every state loadOrInitState returns stay such a
\* partition after any sequence of loadOrInitState and markChunkDone calls.
C6_JournalIsPartition ==
    /\ journal.exists => IsPartition(journal.total_size, journal.chunks)
    /\ call.chunks >= 1 => IsPartition(call.size, chunks)
    /\ call.fresh =>
          /\ Len(chunks) = call.chunks
          /\ \A k \in 1..Len(chunks) : ~chunks[k].done

C6_Witness ==
    /\ journal.exists /\ journal.total_size = MaxSize
    /\ Len(journal.chunks) = MaxChunks
    /\ journal.chunks[1].done
    /\ journal.chunks[MaxChunks].length > journal.chunks[1].length
    /\ call.size = MaxSize /\ ~call.fresh

\* C7: with a journal on disk whose total_size is the requested size,
\* loadOrInitState returns the persisted ranges and done flags whatever
\* count is requested, leaves the file as it is, and downloadParallel runs
\* with the persisted count, one worker per persisted range not done.
C7_ResumeKeepsLayout ==
    [][ (sched = "idle" /\ journal.exists /\ journal.total_size = call'.size)
          => /\ chunks' = journal.chunks
             /\ journal' = journal
             /\ sched' = "wait" =>
                   /\ conc' = Len(journal.chunks)
                   /\ \A k \in 1..Len(journal.chunks) :
                         (wk'[k].pc = "boot") = ~journal.chunks[k].done ]_vars

C7_Witness ==
    /\ sched = "wait" /\ ~call.fresh
    /\ call.chunks # Len(chunks) /\ conc = Len(chunks)
    /\ \E k \in 1..Len(chunks) : chunks[k].done
    /\ \E k \in 1..Len(chunks) : ~chunks[k].done /\ wk[k].pc = "boot"

\* C9: a download that starts from a journal with done ranges sends no
\* RangeReq for a done range and one for each other range (none before
\* its worker's stream is authenticated, never a second one), leaves the
\* bytes of the done ranges in the partial file as they are, and when
\* every remaining range has arrived the final file is the source.
C9_ReqsPerRange ==
    \A k \in 1..Len(chunks) :
        /\ reqs[k] <= 1
        /\ chunks[k].done => reqs[k] = 0 /\ ~Launched(k)
        /\ wk[k].pc = "boot" => reqs[k] = 0
        /\ wk[k].pc \in {"recv", "save"} => reqs[k] = 1
        /\ (wk[k].pc = "exit" /\ (wk[k].recvd > 0 \/ wk[k].marked)) => reqs[k] = 1

DoneRangesHoldSource ==
    \A k \in 1..Len(chunks) :
        chunks[k].done => RangeOf(part.data, chunks[k]) = RangeOf(src, chunks[k])

C1_SequentialDigestVerified ==
    (rpc = "idle" /\ result = "ok")
        => final.exists /\ Sha256Hex(final.data) = meta.hash

\* a session starts / ends in this step
SessionStarts == rpc = "idle" /\ rpc' = "recv"
SessionEnds == rpc = "recv" /\ rpc' = "idle"

\* C8: a session that finds k bytes (0 < k < size) in .partial reports
\* offset k in its Ack, the sender continues at byte k, the k bytes are in
\* the rolling digest before any new data and the file is kept; when the
\* rest of the source has been appended and the stream ends, the digest
\* check passes and the final file is the source.
C8_SequentialResume ==
    /\ [][ (SessionStarts /\ partial.exists /\ Len(partial.data) > 0
              /\ Len(partial.data) < meta'.size)
             => /\ ack' = Len(partial.data)
                /\ spos' = ack'
                /\ totalRecv' = ack'
                /\ hasher' = partial.data
                /\ partial' = partial ]_vars
    /\ [][ (SessionEnds /\ ack > 0 /\ partial.data = src
              /\ meta.hash = Sha256Hex(src)
              /\ result' \notin {"cancelled", "killed"})
             => /\ result' = "ok"
                /\ final' = File(src)
                /\ ~partial'.exists ]_vars

C8_Witness ==
    /\ rpc = "idle" /\ result = "ok"
    /\ ack > 0 /\ ack < meta.size
    /\ meta.hash = Sha256Hex(src)
    /\ final = File(src)

\* ========================================================= claims: sender
IsPrefix(a, b) == Len(a) <= Len(b) /\ a = SubSeq(b, 1, Len(a))

\* C4: on a stream that carried RangeReq{start, length} with length >= 1
\* and start + length <= size, the Data payloads sent so far are the first
\* bytes of [start, start+length) of the payload, and all of them once the
\* handler has returned without error, however the handlers of the other
\* streams interleave.
C4_RangeExact ==
    \A k \in 1..Len(sh) :
        (sh[k].kind = "range" /\ sh[k].limit >= 1
           /\ sh[k].start + sh[k].limit <= Len(src))
        => /\ IsPrefix(sh[k].sent, RangeBytes(src, sh[k].start, sh[k].limit))
           /\ sh[k].ret = "true"
                 => sh[k].sent = RangeBytes(src, sh[k].start, sh[k].limit)

\* C10: with a peer that holds another code, a stream carries the
\* Handshake only after the peer's tag was verified on that stream, so
\* none does, and a handler that compared the tag returned the
\* authentication error.
C10_NoHandshakeToWrongCode ==
    (conn = "open" /\ peerCode # SenderCode)
        => \A k \in 1..Len(sh) :
              /\ sh[k].hs => sh[k].verified
              /\ ~sh[k].verified
              /\ (k = 1 /\ sh[k].pc # "auth") => sh[k].ret \in {"autherr", "err"}

\* =========================================================== claims: PAKE
\* C11: with the same code on both sides, over a buffered stream or an
\* unbuffered pipe, the exchange Hello, Salt, Nonce, ProverTag,
\* VerifierTag completes: both PerformPAKE calls return nil, none returns
\* an error and none stays blocked.
C11_NoErrorWhenSame ==
    (pk.on /\ pk.rcode = SenderCode)
        => \A role \in 0..1 : pkP[role].ret \in {"none", "ok"}

C11_PakeCompletes ==
    /\ []C11_NoErrorWhenSame
    /\ (pk.on /\ pk.rcode = SenderCode)
          ~> (pkP[0].ret = "ok" /\ pkP[1].ret = "ok")

C11_Witness ==
    /\ pk.on /\ pk.sync /\ pk.rcode = SenderCode
    /\ pkP[0].ret = "ok" /\ pkP[1].ret = "ok"

\* C14: with different codes both parties return from the PAKE exchange:
\* the sender's handler with the wrong-code error, and the receiver's
\* call too (it does not wait forever for the server tag on a stream the
\* sender has abandoned).
C14_BothReturnOnMismatch ==
    (pk.on /\ pk.rcode # SenderCode)
        ~> (pkP[0].ret = "autherr" /\ pkP[1].ret \in {"autherr", "err"})

\* ================================================= claims: sender streams
\* C12: on every stream of a connection, the first and the later ones, the
\* sender writes no Handshake and no Data frame unless PerformPAKE has
\* succeeded on that same stream.
C12_PakeOnEveryStream ==
    \A k \in 1..Len(sh) :
        (sh[k].hs \/ sh[k].sent # <<>>) => sh[k].verified

\* the strings a handler's frames carry in the clear: the members of the
\* Handshake JSON (salt, nonce and tags of the PAKE frames are binary)
WireStrings(h) == IF h.hs THEN {h.code} ELSE {}

\* C13: no frame the sender writes carries the session code verbatim.
C13_CodeNeverOnWire ==
    \A k \in 1..Len(sh) : SenderCode \notin WireStrings(sh[k])

C15_AuthFailureIsFatal ==
    [][ result = "autherr"
          => (dials' = dials /\ rpc' = "idle" /\ result' = "autherr") ]_vars

\* C18: when the digest of the received bytes differs from the metadata
\* digest the failure is fatal: the final file is not created, and from
\* then on the .partial file exists with the same content and no other
\* session is started.
C18_IntegrityFailureIsFatal ==
    /\ [][ (SessionEnds /\ result' = "integrity")
             => (partial.exists /\ partial' = partial /\ final' = final) ]_vars
    /\ [][ result = "integrity"
             => (dials' = dials /\ partial' = partial /\ final' = final
                 /\ result' = "integrity") ]_vars

\* ================================================ claims: receiver, files
\* the run reports success in this step, and the file it renames
Succeeding == result # "ok" /\ result' = "ok"
Artifact == IF rpc = "recv" THEN partial ELSE part

\* C16: a Cancel frame read during data streaming, in a sequential session
\* or by a worker of a parallel download, never ends in success: the
\* partial file and the journal stay as they are, no final file is
\* created, and after the cancelled result no session is started.
C16_CancelPreserves ==
    /\ [][ (rpc = "recv" /\ result' = "cancelled")
             => (partial.exists /\ partial' = partial /\ final' = final
                 /\ alts' = alts) ]_vars
    /\ [][ result = "cancelled"
             => (dials' = dials /\ partial' = partial /\ final' = final
                 /\ result' = "cancelled") ]_vars
    /\ [][ (Returns /\ cancelSeen)
             => (result' # "ok" /\ part' = part /\ journal' = journal
                 /\ final' = final) ]_vars

\* C19: after a run that reports success no .partial, no .parallel.part
\* and no .parallel.meta file is left, and the file that was renamed is in
\* the directory under the final name or a "name (k)" name.
C19_NoLeftovers ==
    result = "ok" => (~partial.exists /\ ~part.exists /\ ~journal.exists)

C20_NeverOverwrites ==
    /\ [][ /\ final.exists => final' = final
           /\ \A k \in 1..MaxAlt : alts[k].exists => alts'[k] = alts[k] ]_vars
    /\ [][ (Succeeding /\ final.exists)
             => alts'[FreeSlot(final, alts)] = Artifact ]_vars

\* ============================================================ claims: codec
\* C21: EncodeHeader writes exactly 5 bytes, the kind byte followed by the
\* length as 4 little-endian bytes; DecodeHeader of those bytes returns the
\* same kind and length; and the frames read from a stream are, in order,
\* the frames written to it, with the same kind and payload.
C21_HeaderRoundTrip ==
    /\ hin.set =>
          /\ Len(hbytes) = 5
          /\ \A i \in 1..5 : hbytes[i] \in 0..255
          /\ hbytes[1] = hin.type
          /\ hbytes[2] + 256 * hbytes[3] = hin.length.lo
          /\ hbytes[4] + 256 * hbytes[5] = hin.length.hi
    /\ hout.set => hout = hin
    /\ IsPrefix(got, sent)

C21_Witness ==
    hout.set /\ hin.type = 255 /\ hin.length = U32(65535, 256)

\* =========================================================== claims: readers
\* the cap on the length of a frame, 10 MiB
FrameCap == U32(160, 0)

\* C22: a reader that has decoded a header whose length exceeds the cap
\* of 10 MiB fails the stream, and neither holds a buffer of more than the
\* cap nor reads the payload; for the Handshake and for the Data frames of
\* the sequential and the parallel receive loop.
C22_LengthCapped ==
    (/\ rd.site \in {"handshake", "seq", "par"}
     /\ rd.hdr.set /\ Gt(rd.hdr.length, FrameCap)
     /\ rd.hdr.type = (IF rd.site = "handshake" THEN TypeHandshake
                       ELSE TypeData))
        => (rd.pc = "err" /\ ~Gt(rd.buf, FrameCap))

\* the kinds a reader may get after the Handshake
Allowed(site) ==
    IF site = "sender" THEN {TypeAck, TypeRangeReq}
    ELSE {TypeData, TypeCancel}

\* C23: a frame whose kind is not allowed where the reader stands (on the
\* receiver other than Data or Cancel while streaming, on the sender other
\* than Ack or RangeReq after the Handshake) ends the stream with an
\* error: the reader neither goes on to the next frame nor ends normally.
C23_UnexpectedKindFatal ==
    (/\ rd.site \in {"seq", "par", "sender"}
     /\ rd.hdr.set /\ rd.hdr.type \notin Allowed(rd.site))
        => rd.pc = "err"

\* ================================================ claims: PAKE sub-frames
\* C24: a PAKE sub-frame is accepted only with its fixed length (Hello 0,
\* Salt 16, Nonce 32, ProverTag 32, VerifierTag 32 bytes): once the call
\* has read a sub-frame of another length it has failed.
C24_FixedLengths ==
    (pl.last # NoSub /\ pl.last.length # SentLen(pl.last.msg))
        => pl.ret \in {"err", "autherr"}

\* ================================================ claims: names and paths
DirectChild(loc) == loc.up = 0 /\ Len(loc.comps) = 1

\* C25: the receiver uses the basename of the "name" of the Handshake, and
\* received_file when the name is ".", "/", empty or contains a path
\* separator; every path at which it creates a file or to which it
\* renames one (partial file, journal, final artifact) is a direct child
\* of the output directory.
C25_NameSanitized ==
    nm.pc # "idle" =>
       /\ nm.safe = (IF \/ nm.name \in {<<>>, <<".">>, <<"/">>}
                        \/ \E i \in 1..Len(nm.name) : nm.name[i] = "/"
                     THEN ReceivedFile ELSE nm.name)
       /\ \A loc \in nm.made \cup nm.dest : DirectChild(loc)

\* ===================================================== claims: one session
\* the Handshake was refused before the mode was chosen
HsRefused == hs.pc = "done" /\ hs.mode = ""

\* the offset the Ack has to carry: the length of the .partial found,
\* when that is greater than 0 and less than size, for a file
ExpectedOffset ==
    IF hs.kind = "file" /\ hs.pre.exists
       /\ Len(hs.pre.data) > 0 /\ Len(hs.pre.data) < hs.size
    THEN Len(hs.pre.data) ELSE 0

C27_NoFilesForText ==
    /\ [](hs.kind = "text" =>
             /\ hs.others = {} /\ hs.pfile = hs.pre
             /\ hs.ret = "ok" => (hs.out.given /\ hs.out.text = hs.recv)
             /\ hs.size > TextLimit => (hs.ret = "err" /\ hs.acks = <<>>))
    /\ [][hs'.kind = "text" => hs'.pfile = hs.pfile]_vars

\* a text was received next to a .partial of an earlier session
C27_Witness ==
    /\ hs.kind = "text" /\ hs.ret = "ok" /\ hs.size = TextLimit
    /\ hs.out.text = Payload(TextLimit) /\ hs.pre.exists /\ hs.hk = "sent"

\* ======================================================= claims: dial loop
\* C28: RunReceiver dials again after a failed dial, sleeping longer after
\* each failure in a row, and stops with a fatal error once more than 10
\* dials in a row have failed, never dialing after that; before that it has
\* not given up; a dial that succeeds sets the count of failures to 0.
C28_BoundedRetries ==
    /\ [](/\ drv.retryCount = drv.failed
          /\ drv.failed <= maxRetries + 1
          /\ drv.pc = "fatal" <=> drv.failed > maxRetries)
    /\ [][ /\ drv.pc = "fatal" => drv' = drv
           /\ (drv'.failed > drv.failed /\ drv'.pc = "loop")
                 => (drv'.sleep = drv'.failed /\ drv'.sleep >= 1)
           /\ (drv' # drv /\ drv'.failed <= drv.failed)
                 => drv'.retryCount = 0 ]_vars

\* the loop gave up after a dial had succeeded and eleven then failed
C28_Witness ==
    drv.pc = "fatal" /\ drv.failed = maxRetries + 1
    /\ drv.dialed > maxRetries + 1

\* ========================================================= claims: audit log
\* every goroutine has returned from its last WriteEntry
AllReturned == cw.n > 0 /\ \A i \in 1..cw.n : cw.w[i].pc = "done"

\* the ids of the entries the goroutines wrote
IdsWritten == { <<i, j>> : i \in 1..cw.n, j \in 1..cw.m }

\* C29: WriteEntry calls made at the same time lose and corrupt no entry:
\* once N goroutines have each completed M calls, and N * M does not
\* exceed the cap, LoadHistory returns without error exactly the N * M
\* entries.
C29_ConcurrentWritesKept ==
    (AllReturned /\ cw.n * cw.m <= HistoryCap) =>
        LET l == LoadHistory(hist)
        IN /\ ~l.err
           /\ Len(l.entries) = cw.n * cw.m
           /\ { l.entries[k].id : k \in 1..Len(l.entries) } = IdsWritten
           /\ \A k \in 1..Len(hist.lines) : ~hist.lines[k].junk

\* all goroutines read the empty file before any of them wrote
C29_Witness ==
    /\ AllReturned /\ cw.n = MaxWriters /\ cw.n * cw.m <= HistoryCap
    /\ \A i \in 1..cw.n : cw.w[i].seen = 0

\* the entries of the file
Entries(h) == Wellformed(h.lines)

\* the cap alone, for WriteEntry calls made at the same time: once every
\* goroutine has returned the file holds at most the cap
CapKeptConcurrently == AllReturned => Len(Entries(hist)) <= HistoryCap

\* C30: after any sequence of WriteEntry calls the history file holds at
\* most 1000 (scaled) entries, the entry with the newest timestamp written
\* so far among them; after ClearHistory there is no history file and
\* LoadHistory returns an empty list.
C30_CapAndNewest ==
    /\ Len(Entries(hist)) <= HistoryCap
    /\ au.newest > 0 =>
          \E k \in 1..Len(Entries(hist)) : Entries(hist)[k].ts = au.newest
    /\ au.last = "clear" =>
          (~hist.exists /\ LoadHistory(hist).entries = <<>>)

\* ======================================================= claims: SecureStream
\* C31: for any non-empty Writes and any Read buffer sizes on the peer,
\* the bytes the Reads return are the written bytes in order: no Read
\* fails, what has been returned is a prefix of what was written, with
\* the buffered rest next, and once the wire and the buffer are empty it
\* is all of it.
C31_SecureRoundTrip ==
    /\ ss.err = ""
    /\ Len(ss.out) <= Len(ss.written)
    /\ ss.out = SubSeq(ss.written, 1, Len(ss.out))
    /\ (ss.wire = <<>> /\ ss.readBuf = <<>>) => ss.out = ss.written

\* what holds whatever is written: a Read fails only on a frame beyond
\* the frame limit, and until then no byte is lost or repeated
OnlyOversizeFails ==
    /\ ss.err # "" =>
          (ss.wire # <<>> /\ Head(ss.wire).frameLen > MaxSecureFrame)
    /\ ss.out = SubSeq(ss.written, 1, Len(ss.out))
    /\ (ss.wire = <<>> /\ ss.readBuf = <<>>) => ss.out = ss.written

\* ================================================ claims: ranges of a download
\* the bytes range k has in the partial file were all put there by a
\* positioned write (Truncate fills with zeros, no payload byte is zero)
InFile(k) ==
    LET c == journal.chunks[k]
    IN /\ part.exists /\ Len(part.data) >= c.start + c.length
       /\ \A i \in (c.start + 1)..(c.start + c.length) : part.data[i] # 0

\* C32: in every state of a parallel download a range that the persisted
\* journal has as done has every byte written to the partial file by a
\* positioned write; and a range becomes done only after its worker has
\* received and written exactly length bytes and left its loop (the flag
\* is set by its own markChunkDone, or again by another worker's
\* markChunkDone writing back a copy read after that).
C32_DoneIsWritten ==
    /\ [](journal.exists =>
            \A k \in 1..Len(journal.chunks) :
               journal.chunks[k].done => InFile(k))
    /\ [][\A k \in 1..Len(journal'.chunks) :
             (/\ journal.exists /\ journal'.exists
              /\ Len(journal.chunks) = Len(journal'.chunks)
              /\ journal'.chunks[k].done /\ ~journal.chunks[k].done)
                => (/\ wk[k].pc \in {"save", "exit"}
                    /\ wk[k].recvd = chunks[k].length)]_vars

\* one range is done and in the file while another worker is still
\* receiving its own
C32_Witness ==
    /\ journal.exists /\ sched = "wait"
    /\ \E k, j \in 1..Len(journal.chunks) :
          /\ journal.chunks[k].done /\ journal.chunks[k].length > 0
          /\ wk[k].marked
          /\ wk[j].pc = "recv" /\ wk[j].recvd < chunks[j].length

\* C33: every positioned write of a worker lies inside its range
\* [start, start+length), whatever arrives on its stream: a worker has
\* never written more than length bytes from start, and the partial file
\* never grows beyond total_size.
C33_WritesInsideRange ==
    /\ \A k \in 1..Len(wk) : wk[k].recvd <= chunks[k].length
    /\ (part.exists /\ sched = "wait") => Len(part.data) <= meta.size

\* ===================================================== claims: the Handshake
\* C34: the digest in every Handshake the sender has written is the
\* SHA-256 of the entire payload, also when several stream handlers hash
\* and stream from the same source at the same time.
C34_DigestOfWholePayload ==
    \A k \in 1..Len(sh) : sh[k].hs => sh[k].hash = Sha256Hex(src)

\* ======================================================= claims: the ranges
\* C35: every range of a journal that loadOrInitState has created
\* satisfies start >= 0, length > 0 and start + length <= total_size, for
\* every total size and requested worker count.
C35_RangesWellFormed ==
    call.fresh =>
        \A k \in 1..Len(chunks) :
            /\ chunks[k].start >= 0
            /\ chunks[k].length > 0
            /\ chunks[k].start + chunks[k].length <= call.size

\* the same with ranges that may be empty
RangesInsideSize ==
    call.fresh =>
        \A k \in 1..Len(chunks) :
            /\ chunks[k].start >= 0
            /\ chunks[k].length >= 0
            /\ chunks[k].start + chunks[k].length <= call.size

\* ============================================= claims: size of the Handshake
\* C36: the size field of the Handshake is the number of payload bytes
\* the sender streams in a full sequential transfer and the number it
\* hashed, for files, text and archives made before the session.
C36_SizeIsPayloadLength ==
    /\ pz.pc \in {"send", "done"} => pz.size = pz.hashed
    /\ pz.pc = "done" => pz.size = pz.sent

\* the same for text and plain files
SizeOfPlainPayload ==
    pz.mode \in {"text", "file"} => C36_SizeIsPayloadLength

\* ============================================== claims: frames that are cut
\* C37: a stream that ends inside a frame, after part of the header or of
\* the announced payload, is an error of the reader for that stream; a
\* short read is never taken for a complete frame (the discarded
\* Handshake of a parallel worker stream included).
C37_ShortReadFails ==
    rd.cut \in {"header", "payload"} => rd.pc = "err"

\* the same for the readers of the first Handshake and of the sender
ShortReadFailsOutsideLoops ==
    rd.site \in {"handshake", "sender"} => C37_ShortReadFails

\* ============================================ claims: channels of a download
\* C38: downloadParallel returns once every worker's stream has ended or
\* failed: no worker sends more than one error, errChan never holds more
\* than its capacity, which is at least the number of workers, nothing is
\* sent on a closed channel, the channels are closed only after every
\* worker has returned, and the function returns in the end.
C38_AlwaysReturns ==
    /\ [](/\ ~ch.panic
          /\ ch.err <= ch.cap
          /\ Len(ch.w) <= ch.cap \/ ch.main = "idle"
          /\ \A k \in 1..Len(ch.w) : ch.w[k].errs <= 1
          /\ (ch.progClosed \/ ch.errClosed) =>
                \A k \in 1..Len(ch.w) : ch.w[k].pc = "exit")
    /\ (ch.main = "launched") ~> (ch.main = "returned")

\* it has returned after every worker sent an error and errChan was full
C38_Witness ==
    /\ ch.main = "returned" /\ Len(ch.w) = MaxRanges
    /\ ch.err = ch.cap
    /\ \E k \in 1..Len(ch.w) : ch.w[k].got = MaxData

\* ===================================================== claims: MultiListener
\* done is closed at most once, and once a Close has returned no Accept
\* call made after it waits or gets a connection, and no accept loop waits
\* to deliver one
ClosedForGood ==
    /\ ml.closes <= 1
    /\ \A a \in Callers :
          ml.acc[a].after =>
             (ml.acc[a].pc # "parked" /\ ml.acc[a].ret # "conn")
    /\ ml.returned => ParkedLoops = {}

\* C39 as stated: Close is idempotent, and once it has returned every
\* Accept call returns net.ErrClosed, not a connection and not blocking,
\* and no accept loop stays blocked delivering a connection.
C39_AsStated ==
    /\ ClosedForGood
    /\ \A a \in Callers :
          (ml.acc[a].after /\ ml.acc[a].pc = "ret") =>
              ml.acc[a].ret = "closed"

\* what holds of a call after Close: it returns net.ErrClosed, or the error
\* of its context when that context is done as well
ClosedOrCancelled ==
    /\ ClosedForGood
    /\ \A a \in Callers :
          (ml.acc[a].after /\ ml.acc[a].pc = "ret") =>
              \/ ml.acc[a].ret = "closed"
              \/ ml.acc[a].ret = "ctx" /\ ml.acc[a].ctx

====
